---- MODULE Spec2Model ----
(***************************************************************************)
(* Event-to-alert pipeline of the Solana wallet tracker: the Redis-backed  *)
(* window store (RedisService), the transaction parser and the rule engine *)
(* (WebhookService), the notification dispatch (NotificationService) and   *)
(* the POST /webhook handler.                                              *)
(*                                                                         *)
(* USD amounts are fixed-point numbers in cents, times are unix seconds.   *)
(***************************************************************************)
EXTENDS Integers, Sequences, FiniteSets, TLC

VARIABLES
    now,         \* wall clock of the Redis server and of Date.now(), seconds
    ticks,       \* number of clock advances taken so far
    faults,      \* backend failures the environment may still inject
    cfg,         \* the process-wide config object read from the environment
    env,         \* what the environment sends: payload pool, load, clock steps
    zset,        \* Redis sorted sets buy_amount:<mint> / sell_amount:<mint>
    zsetExp,     \* absolute expiry time of each sorted-set key, 0 = no TTL / no key
    cooldown,    \* absolute expiry time of cooldown:<mint>:<type>:threshold_b, 0 = absent
    seqCount,    \* sequential_sells:<wallet> counters, 0 = no key
    seqExp,      \* absolute expiry time of each counter key, 0 = no TTL / no key
    priceCache,  \* price:<mint> entry of the target mint and its expiry time
    inserted,    \* history: how often a direct addAmountToWindow succeeded per member
    call,        \* the last direct call of a store operation and its result
    task,        \* the pipeline tasks (processWebhook promises) in flight
    events,      \* number of pipeline tasks started so far
    resp,        \* the last answer of POST /webhook
    streak,      \* history: qualifying sells per wallet since its last buy or alert
    parseIn,     \* the payload handed to parseTransaction
    parseOut,    \* what parseTransaction returned for it
    up,          \* the Node process is alive and serving
    rejected,    \* history: number of processWebhook promises that rejected
    cdHist,      \* history: the last setCooldown that succeeded, per key (of
                 \* the rule engine only where env.cooldownHistory says so)
    cacheHist,   \* history, kept where env.priceHistory says so: the last
                 \* fetch that gave a price, the last price written to the cache
    subscriptions,  \* the rows of pushover_subscriptions and of
                    \* pushover_5sells_subscriptions
    trackedWallets, \* the rows of tracked_wallets
    fanout,      \* the push fan-out under way: its snapshot, the sends made
                 \* and how each has settled
    jobs,        \* the invocations of each scheduled job that are running
    shutdown     \* how far gracefulShutdown has got

vars == <<now, ticks, faults, cfg, env, zset, zsetExp, cooldown, seqCount, seqExp,
          priceCache, inserted, call, task, events, resp, streak, parseIn, parseOut,
          up, rejected, cdHist, cacheHist, subscriptions, trackedWallets, fanout,
          jobs, shutdown>>

----------------------------------------------------------------------------
(* Bounds of the model *)

MaxTicks == 2
MaxFaults == 1
MaxCalls == 3
MaxActive == 2
MaxEvents == 3
MaxSeqEvents == 5
MaxBatch == 2
MaxTransfers == 2
MaxPairs == 2
MaxPriceEvents == 2
MaxRuleEvents == 2
MaxRearmEvents == 3
MaxInvocations == 2
MaxShutdownEvents == 2

----------------------------------------------------------------------------
(* Program constants *)

TelegramThresholdUsdDefault == 500
PriceThresholdUsdDefault == 300
SwapTimeWindowSecondsDefault == 3600
FiveSellsThresholdUsdDefault == 300
PriceCacheTtlSecondsDefault == 60
WindowKeyTtlSlack == 300
SequentialSellsTtl == 86400
SequentialSellsTrigger == 5

\* one USD in the fixed-point unit of the model (two decimal places)
CentsPerUsd == 10 * 10

Null == 0 - 1

Dirs == {"buy", "sell"}
Wallets == {"W1", "W2"}
TargetMint == "M"
OtherMint == "O"

\* config: environment-sourced thresholds, the defaults and an
\* "alert on everything" deployment with every USD threshold set to 0
DefaultConfig ==
    [ telegramThresholdUsd  |-> TelegramThresholdUsdDefault * CentsPerUsd,
      priceThresholdUsd     |-> PriceThresholdUsdDefault * CentsPerUsd,
      fiveSellsThresholdUsd |-> FiveSellsThresholdUsdDefault * CentsPerUsd,
      swapTimeWindowSeconds |-> SwapTimeWindowSecondsDefault,
      priceCacheTtlSeconds  |-> PriceCacheTtlSecondsDefault,
      fiveSellsEnabled      |-> TRUE ]

AlertAllConfig ==
    [DefaultConfig EXCEPT !.telegramThresholdUsd = 0,
                          !.priceThresholdUsd = 0,
                          !.fiveSellsThresholdUsd = 0,
                          !.fiveSellsEnabled = FALSE]

Configs == {DefaultConfig, AlertAllConfig}

\* the clock value at start, late enough for a full window to lie behind it
StartTime == 2 * SwapTimeWindowSecondsDefault

----------------------------------------------------------------------------
(* RedisService: the sliding window *)

\* member string `timestamp .. ':' .. amount` of the sorted set; two calls
\* with the same timestamp and amount build the same member
Member(timestamp, amount) == <<timestamp, amount>>

\* ZADD key timestamp member: the score of a member is its timestamp
Score(member) == member[1]

\* string.match(entry, ':(.+)') then tonumber
AmountOf(member) == member[2]

\* ZREMRANGEBYSCORE key -inf windowStart: both ends inclusive
ZRemRangeByScore(entries, windowStart) ==
    {m \in entries : Score(m) > windowStart}

\* ZRANGEBYSCORE key windowStart +inf
ZRangeByScore(entries, windowStart) ==
    {m \in entries : Score(m) >= windowStart}

\* ZADD: a sorted set holds each member once
ZAdd(entries, member) == entries \cup {member}

RECURSIVE SumAmounts(_)
SumAmounts(entries) ==
    IF entries = {} THEN 0
    ELSE LET m == CHOOSE x \in entries : TRUE
         IN AmountOf(m) + SumAmounts(entries \ {m})

\* a Lua number returned by a script becomes a Redis integer reply: the
\* fraction of the USD total is cut off
LuaReply(total) == (total \div CentsPerUsd) * CentsPerUsd

\* the Lua script of addAmountToWindow, run atomically by the server
AddAmountScript(entries, windowStart, timestamp, amount) ==
    LET kept == ZRemRangeByScore(entries, windowStart)
        added == ZAdd(kept, Member(timestamp, amount))
    IN [ entries |-> added,
         total   |-> LuaReply(SumAmounts(ZRangeByScore(added, windowStart))) ]

WindowStart(timestamp) == timestamp - cfg.swapTimeWindowSeconds

\* may this store operation fail (connection lost, timeout)? It does fail
\* on a client that has quit
Outcomes ==
    IF shutdown = "storeClosed" THEN {FALSE}
    ELSE IF faults > 0 THEN {TRUE, FALSE} ELSE {TRUE}

\* a failed operation on an open connection uses up one of the failures
\* the environment has left
Spend(ok) == faults' = IF ok \/ shutdown = "storeClosed" THEN faults ELSE faults - 1

\* the same insert, made only while the key's alert is not in cooldown
AddAmountToWindow_SkipInCooldown(type, usdAmount, timestamp, ok) ==
    IF ok /\ cooldown[type] = 0
    THEN LET r == AddAmountScript(zset[type], WindowStart(timestamp),
                                  timestamp, usdAmount)
         IN /\ zset' = [zset EXCEPT ![type] = r.entries]
            /\ zsetExp' = [zsetExp EXCEPT ![type] =
                   now + cfg.swapTimeWindowSeconds + WindowKeyTtlSlack]
    ELSE UNCHANGED <<zset, zsetExp>>

\* effect of addAmountToWindow(tokenMint, type, usdAmount, timestamp) on the
\* store; ok = FALSE is the eval that rejects (the method rethrows)
AddAmountToWindow(type, usdAmount, timestamp, ok) ==
    IF ok
    THEN LET r == AddAmountScript(zset[type], WindowStart(timestamp),
                                  timestamp, usdAmount)
         IN /\ zset' = [zset EXCEPT ![type] = r.entries]
            /\ zsetExp' = [zsetExp EXCEPT ![type] =
                   now + cfg.swapTimeWindowSeconds + WindowKeyTtlSlack]
    ELSE UNCHANGED <<zset, zsetExp>>

\* the value addAmountToWindow resolves to (Null: it threw)
AddAmountResult(type, usdAmount, timestamp, ok) ==
    IF ok
    THEN AddAmountScript(zset[type], WindowStart(timestamp),
                         timestamp, usdAmount).total
    ELSE Null

----------------------------------------------------------------------------
(* RedisService: cooldown flags and sequential-sells counters *)

\* isInCooldown that goes on answering true for a key once it has been set
IsInCooldown_OnceSetAlways(type, ok) == IF ok THEN cdHist[type].at # Null ELSE FALSE

\* isInCooldown(key): EXISTS; a backend error is caught and answered false
IsInCooldown(type, ok) == IF ok THEN cooldown[type] # 0 ELSE FALSE

\* setCooldown(key, seconds): SETEX; a backend error is caught and dropped
SetCooldown(type, seconds, ok) ==
    cooldown' = IF ok THEN [cooldown EXCEPT ![type] = now + seconds]
                      ELSE cooldown

\* incrementSequentialSells(wallet): INCR, then EXPIRE 86400; an error of
\* either command is caught and answered 0
IncrOutcomes == IF faults > 0 THEN {"ok", "incrFails", "expireFails"} ELSE {"ok"}

IncrementSequentialSells(wallet, outcome) ==
    /\ seqCount' = IF outcome = "incrFails" THEN seqCount
                   ELSE [seqCount EXCEPT ![wallet] = @ + 1]
    /\ seqExp' = IF outcome = "ok"
                 THEN [seqExp EXCEPT ![wallet] = now + SequentialSellsTtl]
                 ELSE seqExp

IncrementResult(wallet, outcome) ==
    IF outcome = "ok" THEN seqCount[wallet] + 1 ELSE 0

\* resetSequentialSells(wallet): DEL; a backend error is caught and dropped
ResetSequentialSells(wallet, ok) ==
    IF ok
    THEN /\ seqCount' = [seqCount EXCEPT ![wallet] = 0]
         /\ seqExp' = [seqExp EXCEPT ![wallet] = 0]
    ELSE UNCHANGED <<seqCount, seqExp>>

\* getCachedPrice(mint): GET; a miss or a backend error gives null
GetCachedPrice(ok) == IF ok THEN priceCache.price ELSE Null

\* setCachedPrice(mint, price): SETEX with the configured TTL; errors dropped
SetCachedPrice(price, ok) ==
    priceCache' = IF ok THEN [price |-> price,
                              exp |-> now + cfg.priceCacheTtlSeconds]
                        ELSE priceCache

----------------------------------------------------------------------------
(* Time *)

\* a key that outlives its TTL by one reading of the clock
Expired_Late(exp, t) == exp # 0 /\ exp < t

Expired(exp, t) == exp # 0 /\ exp <= t

\* the clock advances; keys whose TTL has run out are gone
Tick ==
    /\ ticks < env.maxTicks
    /\ \E d \in env.tickSteps :
         LET t == now + d IN
         /\ now' = t
         /\ zset' = [k \in Dirs |-> IF Expired(zsetExp[k], t) THEN {} ELSE zset[k]]
         /\ zsetExp' = [k \in Dirs |-> IF Expired(zsetExp[k], t) THEN 0 ELSE zsetExp[k]]
         /\ cooldown' = [k \in Dirs |-> IF Expired(cooldown[k], t) THEN 0 ELSE cooldown[k]]
         /\ seqCount' = [w \in Wallets |-> IF Expired(seqExp[w], t) THEN 0 ELSE seqCount[w]]
         /\ seqExp' = [w \in Wallets |-> IF Expired(seqExp[w], t) THEN 0 ELSE seqExp[w]]
         /\ priceCache' = IF Expired(priceCache.exp, t)
                          THEN [price |-> Null, exp |-> 0] ELSE priceCache
    /\ ticks' = ticks + 1
    /\ UNCHANGED <<cacheHist, cdHist, subscriptions, trackedWallets, fanout, jobs, shutdown,
                   up, rejected, faults, cfg, env, inserted, call, task,
                   events, resp, streak,
                   parseIn, parseOut>>

----------------------------------------------------------------------------
(* Direct calls of the store, as made by any caller of RedisService *)

NoCall == [op |-> "none", n |-> 0]

\* every member a window`s key can hold in this model
AllMembers == {Member(ts, a) : ts \in env.timestamps, a \in env.usdAmounts}

RECURSIVE WeightedSum(_, _)
WeightedSum(bag, members) ==
    IF members = {} THEN 0
    ELSE LET m == CHOOSE x \in members : TRUE
         IN bag[m] * AmountOf(m) + WeightedSum(bag, members \ {m})

\* sum of the USD amounts of all inserts made so far whose timestamp is
\* at or after windowStart, each insert counted
ExpectedTotal(bag, windowStart) ==
    WeightedSum(bag, {m \in DOMAIN bag : Score(m) >= windowStart})

CallAddAmountToWindow ==
    /\ call.n < MaxCalls
    /\ \E type \in Dirs, usdAmount \in env.usdAmounts,
          timestamp \in env.timestamps, ok \in Outcomes :
         /\ AddAmountToWindow(type, usdAmount, timestamp, ok)
         /\ Spend(ok)
         /\ inserted' = IF ok
                        THEN [inserted EXCEPT ![type][Member(timestamp, usdAmount)] = @ + 1]
                        ELSE inserted
         /\ call' = [ op |-> "add", n |-> call.n + 1, ok |-> ok, threw |-> ~ok,
                      type |-> type, timestamp |-> timestamp,
                      usdAmount |-> usdAmount,
                      total |-> AddAmountResult(type, usdAmount, timestamp, ok),
                      expected |-> IF ok
                                   THEN ExpectedTotal(inserted'[type],
                                                      WindowStart(timestamp))
                                   ELSE Null ]
    /\ UNCHANGED <<cacheHist, cdHist, subscriptions, trackedWallets, fanout, jobs, shutdown,
                   up, rejected, now, ticks, cfg, env, cooldown, seqCount,
                   seqExp, priceCache,
                   task, events, resp, streak, parseIn, parseOut>>

\* the inserts made on each key so far, in their order of arrival
Arrivals == IF call.op = "arrive" THEN call.arrivals ELSE [k \in Dirs |-> <<>>]

\* addAmountToWindow called directly on a reliable store, the order of
\* arrival of the inserts of each key kept
CallAddAmountInOrder ==
    /\ call.n < MaxCalls
    /\ \E type \in Dirs, usdAmount \in env.usdAmounts, timestamp \in env.timestamps :
         /\ AddAmountToWindow(type, usdAmount, timestamp, TRUE)
         /\ inserted' = [inserted EXCEPT ![type][Member(timestamp, usdAmount)] = @ + 1]
         /\ call' = [ op |-> "arrive", n |-> call.n + 1, type |-> type,
                      total |-> AddAmountResult(type, usdAmount, timestamp, TRUE),
                      arrivals |-> [Arrivals EXCEPT ![type] =
                                       Append(@, Member(timestamp, usdAmount))] ]
    /\ UNCHANGED <<cacheHist, cdHist, subscriptions, trackedWallets, fanout, jobs, shutdown,
                   up, rejected, now, ticks, faults, cfg, env, cooldown, seqCount,
                   seqExp, priceCache,
                   task, events, resp, streak, parseIn, parseOut>>

\* no direct setCooldown has succeeded on the key yet
NeverSet == [at |-> Null, seconds |-> 0]

\* the rest of the state a direct call of the store leaves alone
StoreFrame ==
    UNCHANGED <<now, ticks, cfg, env, priceCache, task, events, resp, streak,
                parseIn, parseOut, up, rejected, cacheHist,
                subscriptions, trackedWallets, fanout, jobs, shutdown>>

\* getCumulativeAmount(mint, type): evicts up to now - window, sums what is
\* left; `totalAmount || 0`, and 0 as well when the eval fails
CallGetCumulativeAmount ==
    /\ call.n < MaxCalls
    /\ \E type \in Dirs, ok \in Outcomes :
         LET windowStart == now - cfg.swapTimeWindowSeconds
             kept == ZRemRangeByScore(zset[type], windowStart)
         IN /\ Spend(ok)
            /\ zset' = IF ok THEN [zset EXCEPT ![type] = kept] ELSE zset
            /\ call' = [ op |-> "cumulative", n |-> call.n + 1, ok |-> ok,
                         threw |-> FALSE, type |-> type,
                         value |-> IF ok
                                   THEN LuaReply(SumAmounts(ZRangeByScore(kept, windowStart)))
                                   ELSE 0 ]
    /\ StoreFrame
    /\ UNCHANGED <<zsetExp, cooldown, seqCount, seqExp, inserted, cdHist>>

\* isInCooldown(key)
CallIsInCooldown ==
    /\ call.n < MaxCalls
    /\ \E type \in Dirs, ok \in Outcomes :
         /\ Spend(ok)
         /\ call' = [ op |-> "isInCooldown", n |-> call.n + 1, ok |-> ok,
                      threw |-> FALSE, type |-> type, at |-> now,
                      value |-> IsInCooldown(type, ok) ]
    /\ StoreFrame
    /\ UNCHANGED <<zset, zsetExp, cooldown, seqCount, seqExp, inserted, cdHist>>

\* setCooldown(key, seconds)
CallSetCooldown ==
    /\ call.n < MaxCalls
    /\ \E type \in Dirs, seconds \in env.cooldownSeconds, ok \in Outcomes :
         /\ Spend(ok)
         /\ SetCooldown(type, seconds, ok)
         /\ cdHist' = IF ok THEN [cdHist EXCEPT ![type] =
                                     [at |-> now, seconds |-> seconds]]
                            ELSE cdHist
         /\ call' = [ op |-> "setCooldown", n |-> call.n + 1, ok |-> ok,
                      threw |-> FALSE, type |-> type, value |-> seconds ]
    /\ StoreFrame
    /\ UNCHANGED <<zset, zsetExp, seqCount, seqExp, inserted>>

\* incrementSequentialSells(wallet)
CallIncrementSequentialSells ==
    /\ call.n < MaxCalls
    /\ \E wallet \in Wallets, outcome \in IncrOutcomes :
         /\ Spend(outcome = "ok")
         /\ IncrementSequentialSells(wallet, outcome)
         /\ call' = [ op |-> "increment", n |-> call.n + 1,
                      ok |-> (outcome = "ok"), threw |-> FALSE,
                      type |-> wallet,
                      value |-> IncrementResult(wallet, outcome) ]
    /\ StoreFrame
    /\ UNCHANGED <<zset, zsetExp, cooldown, inserted, cdHist>>

\* resetSequentialSells(wallet)
CallResetSequentialSells ==
    /\ call.n < MaxCalls
    /\ \E wallet \in Wallets, ok \in Outcomes :
         /\ Spend(ok)
         /\ ResetSequentialSells(wallet, ok)
         /\ call' = [ op |-> "reset", n |-> call.n + 1, ok |-> ok,
                      threw |-> FALSE, type |-> wallet, value |-> 0 ]
    /\ StoreFrame
    /\ UNCHANGED <<zset, zsetExp, cooldown, inserted, cdHist>>

\* getSequentialSells(wallet): the count, 0 without a key and 0 as well when
\* the GET fails
GetSequentialSells(wallet, ok) == IF ok THEN seqCount[wallet] ELSE 0

CallGetSequentialSells ==
    /\ call.n < MaxCalls
    /\ \E wallet \in Wallets, ok \in Outcomes :
         /\ Spend(ok)
         /\ call' = [ op |-> "get", n |-> call.n + 1, ok |-> ok,
                      threw |-> FALSE, type |-> wallet,
                      value |-> GetSequentialSells(wallet, ok) ]
    /\ StoreFrame
    /\ UNCHANGED <<zset, zsetExp, cooldown, seqCount, seqExp, inserted, cdHist>>

----------------------------------------------------------------------------
(* WebhookService: validatePayload and parseTransaction *)

\* a check of the signature key alone
ValidatePayload_SignatureOnly(payload) ==
    /\ payload.isObject
    /\ payload.hasSignature

\* validatePayload(payload): an object that has the keys signature and
\* timestamp
ValidatePayload(payload) ==
    /\ payload.isObject
    /\ payload.hasSignature
    /\ payload.hasTimestamp

\* Array.prototype.find: index of the first transfer of the target mint, 0 if
\* there is none
FindTargetTransfer(tokenTransfers) ==
    LET hits == {i \in 1..Len(tokenTransfers) : tokenTransfers[i].mint = TargetMint}
    IN IF hits = {} THEN 0
       ELSE CHOOSE i \in hits : \A j \in hits : i <= j

\* the ParsedTransaction built from a payload and its chosen transfer
ParsedTransaction(payload, transfer, type, wallet) ==
    [ walletAddress        |-> wallet,
      tokenMint            |-> transfer.mint,
      tokenAmount          |-> transfer.tokenAmount,
      decimals             |-> 0,
      transactionSignature |-> payload.signature,
      timestamp            |-> payload.timestamp,
      type                 |-> type ]

\* classification of the chosen transfer: a buy when the fee payer receives,
\* else a sell when the fee payer sends, else nothing
Classify(payload, transfer) ==
    IF transfer.toUserAccount = payload.feePayer
    THEN <<ParsedTransaction(payload, transfer, "buy", transfer.toUserAccount)>>
    ELSE IF transfer.fromUserAccount = payload.feePayer
    THEN <<ParsedTransaction(payload, transfer, "sell", transfer.fromUserAccount)>>
    ELSE <<>>

\* a parser that looks for the first target-mint transfer the fee payer is a
\* party of, instead of the first target-mint transfer
ParseTransaction_AnyInvolved(payload) ==
    LET tt == payload.tokenTransfers
        hits == {i \in 1..Len(tt) : /\ tt[i].mint = TargetMint
                                    /\ \/ tt[i].toUserAccount = payload.feePayer
                                       \/ tt[i].fromUserAccount = payload.feePayer}
    IN IF hits = {} THEN <<>>
       ELSE Classify(payload, tt[CHOOSE i \in hits : \A j \in hits : i <= j])

\* a parser that tests the sending side before the receiving side
ParseTransaction_SellFirst(payload) ==
    LET i == FindTargetTransfer(payload.tokenTransfers)
    IN IF i = 0 THEN <<>>
       ELSE LET transfer == payload.tokenTransfers[i]
            IN IF transfer.fromUserAccount = payload.feePayer
               THEN <<ParsedTransaction(payload, transfer, "sell",
                                        transfer.fromUserAccount)>>
               ELSE IF transfer.toUserAccount = payload.feePayer
               THEN <<ParsedTransaction(payload, transfer, "buy",
                                        transfer.toUserAccount)>>
               ELSE <<>>

\* parseTransaction(payload): the sequence of events it yields, none or one
ParseTransaction(payload) ==
    LET i == FindTargetTransfer(payload.tokenTransfers)
    IN IF i = 0 THEN <<>>
       ELSE Classify(payload, payload.tokenTransfers[i])

\* payloads the parser is exercised with: every combination of up to
\* MaxTransfers transfers over two accounts, a third party and two mints
ParseAccounts == {"W1", "W2", "X"}

ParseTransfers ==
    [ fromUserAccount : ParseAccounts, toUserAccount : ParseAccounts,
      mint : {TargetMint, OtherMint}, tokenAmount : {3, 7} ]

RECURSIVE SeqsUpTo(_, _)
SeqsUpTo(S, n) ==
    IF n = 0 THEN {<<>>}
    ELSE LET shorter == SeqsUpTo(S, n - 1)
         IN shorter \cup {Append(q, x) : q \in {r \in shorter : Len(r) = n - 1}, x \in S}

ParsePayloads ==
    [ isObject : {TRUE}, hasSignature : {TRUE}, hasTimestamp : {TRUE},
      hasTokenTransfers : {TRUE},
      signature : {"s1", "s2"}, timestamp : {StartTime},
      feePayer : {"W1", "W2"},
      tokenTransfers : SeqsUpTo(ParseTransfers, MaxTransfers) ]

NoPayload == [isObject |-> FALSE]

\* transfer records as the provider may send them: with a decimals key
\* beside the amount, or without one (Null)
DecimalsTransfers ==
    [ fromUserAccount : {"W1", "X"}, toUserAccount : {"W1", "X"},
      mint : {TargetMint, OtherMint}, tokenAmount : {3000}, decimals : {Null, 2} ]

DecimalsPayloads ==
    [ isObject : {TRUE}, hasSignature : {TRUE}, hasTimestamp : {TRUE},
      hasTokenTransfers : {TRUE},
      signature : {"s1"}, timestamp : {StartTime}, feePayer : {"W1"},
      tokenTransfers : SeqsUpTo(DecimalsTransfers, MaxTransfers) ]

\* one call of parseTransaction on the payload at hand
CallParseTransaction ==
    /\ call.op = "none"
    /\ parseIn # NoPayload
    /\ parseOut' = ParseTransaction(parseIn)
    /\ call' = [op |-> "parse", n |-> 1]
    /\ UNCHANGED <<cacheHist, cdHist, subscriptions, trackedWallets, fanout, jobs, shutdown,
                   up, rejected, now, ticks, faults, cfg, env, zset, zsetExp,
                   cooldown, seqCount,
                   seqExp, priceCache, inserted, task, events, resp, streak, parseIn>>

----------------------------------------------------------------------------
(* PriceService *)

RECURSIVE Pow10(_)
Pow10(n) == IF n = 0 THEN 1 ELSE 10 * Pow10(n - 1)

\* calculateUsdValue: amount / 10^decimals * price, null without a price;
\* the price is in cents per token
CalculateUsdValue(amount, decimals, price) ==
    IF price = Null THEN Null
    ELSE (amount * price) \div Pow10(decimals)

----------------------------------------------------------------------------
(* WebhookService.processTransfer: the rule engine *)

Tasks == 1..MaxActive

NoEvent == [type |-> "none"]

\* no price lookup made yet. source is where the price came from; at the
\* lookup: ok whether the cache read worked, recent whether a fetch had given a
\* price less than the TTL ago, fresh whether a price had been written to the
\* cache less than the TTL ago, stale whether the price last written was
\* fetched the TTL or longer ago, cached the price last written; fetchedAt is
\* when this task's own fetch returned
NoLookup ==
    [ source |-> "none", ok |-> FALSE, at |-> Null, recent |-> FALSE,
      fresh |-> FALSE, stale |-> FALSE, cached |-> Null, fetchedAt |-> Null ]

\* the price source has not been asked
NoAnswer == [kind |-> "none", pairs |-> 0, priced |-> 0, best |-> ""]

IdleTask ==
    [ pc |-> "idle", ev |-> NoEvent, usd |-> Null, cum |-> Null, fired |-> {},
      cdSeen |-> "none", seenAt |-> Null, sentAt |-> Null, cdSetAt |-> Null,
      count |-> Null, nth |-> Null,
      storeFailed |-> FALSE, wrote |-> FALSE,
      lookup |-> NoLookup, response |-> NoAnswer, price |-> Null,
      log |-> <<>>, undelivered |-> {}, lapsed |-> FALSE ]

\* a task that has just been handed its parsed event and awaits the price
StartedTask(ev) == [IdleTask EXCEPT !.pc = "price", !.ev = ev]

\* R4, the sequential-sells rule, after R3
AfterR3(ev, usd) ==
    IF ~cfg.fiveSellsEnabled THEN "done"
    ELSE IF ev.type = "buy" THEN "r4reset"
    ELSE IF usd # Null /\ usd >= cfg.fiveSellsThresholdUsd THEN "r4incr"
    ELSE "done"

AfterIncrement(count) ==
    IF count >= SequentialSellsTrigger THEN "r4send" ELSE "done"

\* after isInCooldown resolved
AfterCooldownCheck(inCooldown, ev, usd) ==
    IF ~inCooldown THEN "r3send" ELSE AfterR3(ev, usd)

\* after addAmountToWindow resolved with the cumulative amount
AfterAdd(cumulativeAmount, ev, usd) ==
    IF cumulativeAmount >= cfg.priceThresholdUsd THEN "r3check"
    ELSE AfterR3(ev, usd)

\* R1 taken up again after R2
AfterR2_BackToR1(ev, usd) ==
    IF usd # Null /\ usd >= cfg.telegramThresholdUsd THEN "r1" ELSE "r3add"

\* R3 entered whether or not the USD value is known
AfterR2_Always(ev, usd) == "r3add"

\* R3 starts with the window insert when the USD value is known
AfterR2(ev, usd) ==
    IF usd # Null THEN "r3add" ELSE AfterR3(ev, usd)

\* R2: usdValue !== null && usdValue >= config.priceThresholdUsd
AfterR1(ev, usd) ==
    IF usd # Null /\ usd >= cfg.priceThresholdUsd THEN "r2" ELSE AfterR2(ev, usd)

\* R1: usdValue !== null && usdValue >= config.telegramThresholdUsd
AfterPrice(ev, usd) ==
    IF usd # Null /\ usd >= cfg.telegramThresholdUsd THEN "r1" ELSE AfterR1(ev, usd)

\* priceUsd strings the price source may send: empty, not a number, and
\* numerals
PriceStrings == {"", "abc", "0", "-5", "50", "100"}

\* parseFloat on those strings
ParseFloat(str) ==
    CASE str = "0"   -> [nan |-> FALSE, val |-> 0]
      [] str = "-5"  -> [nan |-> FALSE, val |-> 0 - 5]
      [] str = "50"  -> [nan |-> FALSE, val |-> 50]
      [] str = "100" -> [nan |-> FALSE, val |-> 100]
      [] OTHER       -> [nan |-> TRUE, val |-> 0]

\* pairs.filter(pair => pair.priceUsd): a non-empty string is truthy
HasPriceUsd(pair) == pair.priceUsd # ""

\* a.liquidity?.usd || 0
LiquidityUsd(pair) == IF pair.liquidity = Null THEN 0 ELSE pair.liquidity

\* pairs.sort((a, b) => liquidityB - liquidityA)[0]: the sort is stable, so
\* it is the first of the pairs with the greatest liquidity
BestPair(pairs) ==
    LET best == CHOOSE i \in 1..Len(pairs) :
                   /\ \A j \in 1..Len(pairs) :
                         LiquidityUsd(pairs[j]) <= LiquidityUsd(pairs[i])
                   /\ \A j \in 1..(i - 1) :
                         LiquidityUsd(pairs[j]) < LiquidityUsd(pairs[i])
    IN pairs[best]

\* fetchPriceFromDexScreener without the check of the parsed number
FetchPriceFromDexScreener_NoValidation(response) ==
    IF response.kind # "ok" THEN Null
    ELSE IF Len(response.pairs) = 0 THEN Null
    ELSE LET pairs == SelectSeq(response.pairs, HasPriceUsd)
         IN IF Len(pairs) = 0 THEN Null
            ELSE ParseFloat(BestPair(pairs).priceUsd).val

\* fetchPriceFromDexScreener: a request that fails or times out, a body
\* without pairs, no pair with a priceUsd, or a best pair whose price is not a
\* positive number, all give null
FetchPriceFromDexScreener(response) ==
    IF response.kind # "ok" THEN Null
    ELSE IF Len(response.pairs) = 0 THEN Null
    ELSE LET pairs == SelectSeq(response.pairs, HasPriceUsd)
         IN IF Len(pairs) = 0 THEN Null
            ELSE LET price == ParseFloat(BestPair(pairs).priceUsd)
                 IN IF price.nan \/ price.val <= 0 THEN Null ELSE price.val

\* what a task keeps of the answer of the price source: how many pairs it
\* listed, how many of them with a priceUsd, and the priceUsd of the pair taken
Answer(response) ==
    IF response.kind # "ok" THEN [NoAnswer EXCEPT !.kind = response.kind]
    ELSE LET pairs == SelectSeq(response.pairs, HasPriceUsd)
         IN [ kind |-> "ok", pairs |-> Len(response.pairs), priced |-> Len(pairs),
              best |-> IF Len(pairs) = 0 THEN "" ELSE BestPair(pairs).priceUsd ]

\* what the price source answers: one pair with the given priceUsd, or a
\* request that fails or times out
Quote(priceUsd) == [kind |-> "ok", pairs |-> <<[priceUsd |-> priceUsd, liquidity |-> 10]>>]

Failing == [kind |-> "error"]

\* pairs of every kind the price source may list, and its answers of up to
\* MaxPairs pairs
PricePairs == [priceUsd : PriceStrings, liquidity : {Null, 10}]

PriceResponses ==
    {Failing} \cup {[kind |-> "ok", pairs |-> pairs] : pairs \in SeqsUpTo(PricePairs, MaxPairs)}

\* fetchPriceFromDexScreener called on its own with every answer of the
\* price source
CallFetchPriceFromDexScreener ==
    /\ call.op = "none"
    /\ \E response \in PriceResponses :
         call' = [ op |-> "fetchPrice", n |-> 1, response |-> response,
                   price |-> FetchPriceFromDexScreener(response) ]
    /\ UNCHANGED <<cacheHist, cdHist, subscriptions, trackedWallets, fanout, jobs, shutdown,
                   up, rejected, now, ticks, faults, cfg, env, zset, zsetExp,
                   cooldown, seqCount, seqExp, priceCache, inserted, task,
                   events, resp, streak, parseIn, parseOut>>

\* the answers the price source of the environment may give
Responses ==
    CASE env.responses = "every" -> PriceResponses
      [] env.responses = "plain" -> {Quote("50"), Failing}
      [] OTHER -> {}

\* no price has been written to the cache yet
NeverCached == [fetchedAt |-> Null, at |-> Null, of |-> Null, price |-> Null]

\* a fetch gave a price less than the TTL ago
FetchedWithinTtl ==
    cacheHist.fetchedAt # Null /\ now < cacheHist.fetchedAt + cfg.priceCacheTtlSeconds

\* the price last written to the cache was fetched the TTL or longer ago
FetchedTtlAgo ==
    cacheHist.of # Null /\ now >= cacheHist.of + cfg.priceCacheTtlSeconds

\* a price was written to the cache less than the TTL ago
WrittenWithinTtl ==
    cacheHist.at # Null /\ now < cacheHist.at + cfg.priceCacheTtlSeconds

\* getTokenPrice, first await: the cache lookup
GetTokenPrice(t) ==
    /\ task[t].pc = "price"
    /\ \E ok \in Outcomes :
         LET cachedPrice == GetCachedPrice(ok)
             ev == task[t].ev
             usd == CalculateUsdValue(ev.tokenAmount, ev.decimals, cachedPrice)
             lookup == IF ~env.priceHistory THEN NoLookup
                       ELSE [ source |-> IF cachedPrice # Null THEN "cache" ELSE "none",
                              ok |-> ok, at |-> now, recent |-> FetchedWithinTtl,
                              fresh |-> WrittenWithinTtl, stale |-> FetchedTtlAgo,
                              cached |-> cacheHist.price, fetchedAt |-> Null ]
         IN /\ Spend(ok)
            /\ task' = IF cachedPrice # Null
                       THEN [task EXCEPT ![t].usd = usd,
                                         ![t].price = cachedPrice,
                                         ![t].lookup = lookup,
                                         ![t].pc = AfterPrice(ev, usd)]
                       ELSE [task EXCEPT ![t].lookup = lookup,
                                         ![t].pc = "fetch"]
    /\ UNCHANGED <<cacheHist, cdHist, subscriptions, trackedWallets, fanout, jobs, shutdown,
                   up, rejected, now, ticks, cfg, env, zset, zsetExp,
                   cooldown, seqCount, seqExp,
                   priceCache, inserted, call, events, resp, streak, parseIn, parseOut>>

\* getTokenPrice, on a cache miss: the request to the price source; without a
\* price the cache is not written
FetchPrice(t) ==
    /\ task[t].pc = "fetch"
    /\ \E response \in Responses :
         LET ev == task[t].ev
             price == FetchPriceFromDexScreener(response)
             asked == IF env.priceHistory
                      THEN [task EXCEPT ![t].response = Answer(response),
                                        ![t].lookup.source = "upstream",
                                        ![t].lookup.fetchedAt =
                                            IF price # Null THEN now ELSE @]
                      ELSE task
         IN /\ task' = IF price # Null
                       THEN [asked EXCEPT ![t].price = price, ![t].pc = "cache"]
                       ELSE [asked EXCEPT ![t].pc = AfterPrice(ev, Null)]
            /\ cacheHist' = IF price # Null /\ env.priceHistory
                            THEN [cacheHist EXCEPT !.fetchedAt = now]
                            ELSE cacheHist
    /\ UNCHANGED <<cdHist, subscriptions, trackedWallets, fanout, jobs, shutdown,
                   up, rejected, now, ticks, faults, cfg, env, zset,
                   zsetExp, cooldown, seqCount, seqExp, priceCache,
                   inserted, call, events, resp, streak, parseIn, parseOut>>

\* getTokenPrice, after a fetch that gave a price: setCachedPrice, then the
\* price is returned whether or not the write worked
CachePrice(t) ==
    /\ task[t].pc = "cache"
    /\ \E ok \in Outcomes :
         LET ev == task[t].ev
             price == task[t].price
             usd == CalculateUsdValue(ev.tokenAmount, ev.decimals, price)
         IN /\ Spend(ok)
            /\ SetCachedPrice(price, ok)
            /\ cacheHist' = IF ok /\ env.priceHistory
                            THEN [cacheHist EXCEPT !.at = now, !.price = price,
                                                   !.of = task[t].lookup.fetchedAt]
                            ELSE cacheHist
            /\ task' = [task EXCEPT ![t].usd = usd, ![t].pc = AfterPrice(ev, usd)]
    /\ UNCHANGED <<cdHist, subscriptions, trackedWallets, fanout, jobs, shutdown,
                   up, rejected, now, ticks, cfg, env, zset, zsetExp,
                   cooldown, seqCount, seqExp,
                   inserted, call, events, resp, streak, parseIn, parseOut>>

----------------------------------------------------------------------------
(* NotificationService *)

\* JavaScript truthiness of transfer.valueUsd: unset and 0 are both falsy
Truthy(valueUsd) == valueUsd # Null /\ valueUsd # 0

\* sendPushoverThresholdA: returns early, before the fan-out, when
\* !transfer.valueUsd
SendPushoverThresholdA(valueUsd) == Truthy(valueUsd)

\* sendTelegramNotification and sendPushoverThresholdB have no such guard
SendTelegramNotification(valueUsd) == TRUE

SendPushoverThresholdB(valueUsd) == TRUE

\* sendNotification that lets the error of a rejected send through
SendNotification_Rethrows(delivered) == IF delivered THEN "resolved" ELSE "rejected"

\* sendNotification: whatever the channel does, the try/catch around the
\* switch logs the error and the promise resolves
SendNotification(delivered) == "resolved"

----------------------------------------------------------------------------
(* processTransfer, the awaited steps of R1, R2 and R3 *)

Frame == UNCHANGED <<cacheHist, cdHist, now, ticks, cfg, env, priceCache, inserted, call, events, resp,
                     parseIn, parseOut>>

\* a processTransfer that goes on after a send only when the channel took
\* the message
AfterSend_DeliveredOnly(tk, rule, sent, delivered, next) ==
    IF delivered
    THEN [tk EXCEPT !.fired = IF sent THEN @ \cup {rule} ELSE @,
                    !.log = IF sent THEN Append(@, rule) ELSE @,
                    !.pc = next]
    ELSE [tk EXCEPT !.log = IF sent THEN Append(@, rule) ELSE @,
                    !.undelivered = IF sent THEN @ \cup {rule} ELSE @,
                    !.pc = "done"]

\* the task after its awaited sendNotification for `rule` has returned: sent
\* tells whether the send function got as far as the channel, delivered
\* whether the channel took the message, next where processTransfer goes on
AfterSend(tk, rule, sent, delivered, next) ==
    IF SendNotification(delivered) = "resolved"
    THEN [tk EXCEPT !.fired = IF sent THEN @ \cup {rule} ELSE @,
                    !.log = IF sent THEN Append(@, rule) ELSE @,
                    !.undelivered = IF sent /\ ~delivered THEN @ \cup {rule} ELSE @,
                    !.pc = next]
    ELSE [tk EXCEPT !.log = IF sent THEN Append(@, rule) ELSE @,
                    !.undelivered = IF sent THEN @ \cup {rule} ELSE @,
                    !.pc = "failed"]

\* R1: sendNotification(TELEGRAM_ALL); delivery errors are swallowed
R1Notify(t) ==
    /\ task[t].pc = "r1"
    /\ \E delivered \in env.deliveries :
         task' = [task EXCEPT ![t] =
                     AfterSend(@, "R1", SendTelegramNotification(@.usd), delivered,
                               AfterR1(@.ev, @.usd))]
    /\ Frame
    /\ UNCHANGED <<subscriptions, trackedWallets, fanout, jobs, shutdown,
                   up, rejected, faults, zset, zsetExp, cooldown, seqCount,
                   seqExp, streak>>

\* R2: sendNotification(PUSHOVER_THRESHOLD_A)
R2Notify(t) ==
    /\ task[t].pc = "r2"
    /\ \E delivered \in env.deliveries :
         task' = [task EXCEPT ![t] =
                     AfterSend(@, "R2", SendPushoverThresholdA(@.usd), delivered,
                               AfterR2(@.ev, @.usd))]
    /\ Frame
    /\ UNCHANGED <<subscriptions, trackedWallets, fanout, jobs, shutdown,
                   up, rejected, faults, zset, zsetExp, cooldown, seqCount,
                   seqExp, streak>>

\* R3: addAmountToWindow(mint, type, usdValue, timestamp); when it throws
\* processTransfer rethrows and the task ends
R3Add(t) ==
    /\ task[t].pc = "r3add"
    /\ \E ok \in Outcomes :
         LET ev == task[t].ev
             usd == task[t].usd
             cumulativeAmount == AddAmountResult(ev.type, usd, ev.timestamp, ok)
         IN /\ Spend(ok)
            /\ AddAmountToWindow(ev.type, usd, ev.timestamp, ok)
            /\ task' = IF ok
                       THEN [task EXCEPT ![t].cum = cumulativeAmount,
                                         ![t].wrote = TRUE,
                                         ![t].pc = AfterAdd(cumulativeAmount, ev, usd)]
                       ELSE [task EXCEPT ![t].storeFailed = TRUE,
                                         ![t].pc = "failed"]
    /\ Frame
    /\ UNCHANGED <<subscriptions, trackedWallets, fanout, jobs, shutdown,
                   up, rejected, cooldown, seqCount, seqExp, streak>>

\* the flag of the key was set and its lifetime has run out since
LifetimeOver(key) ==
    /\ cdHist[key].at # Null
    /\ now >= cdHist[key].at + cdHist[key].seconds

\* R3: isInCooldown(`<mint>:<type>:threshold_b`)
R3Check(t) ==
    /\ task[t].pc = "r3check"
    /\ \E ok \in Outcomes :
         LET ev == task[t].ev
             inCooldown == IsInCooldown(ev.type, ok)
         IN /\ Spend(ok)
            /\ task' = [task EXCEPT
                          ![t].cdSeen = IF cooldown[ev.type] # 0 THEN "present"
                                                                 ELSE "absent",
                          ![t].seenAt = now,
                          ![t].lapsed = LifetimeOver(ev.type),
                          ![t].storeFailed = (@ \/ ~ok),
                          ![t].pc = AfterCooldownCheck(inCooldown, ev, task[t].usd)]
    /\ Frame
    /\ UNCHANGED <<subscriptions, trackedWallets, fanout, jobs, shutdown,
                   up, rejected, zset, zsetExp, cooldown, seqCount, seqExp,
                   streak>>

\* R3: sendNotification(PUSHOVER_THRESHOLD_B)
R3Notify(t) ==
    /\ task[t].pc = "r3send"
    /\ \E delivered \in env.deliveries :
         task' = [task EXCEPT ![t] =
                     [AfterSend(@, "R3", SendPushoverThresholdB(@.usd), delivered,
                                "r3set")
                        EXCEPT !.sentAt = now]]
    /\ Frame
    /\ UNCHANGED <<subscriptions, trackedWallets, fanout, jobs, shutdown,
                   up, rejected, faults, zset, zsetExp, cooldown, seqCount,
                   seqExp, streak>>

\* R3: setCooldown(key, config.swapTimeWindowSeconds)
R3SetCooldown(t) ==
    /\ task[t].pc = "r3set"
    /\ \E ok \in Outcomes :
         /\ Spend(ok)
         /\ SetCooldown(task[t].ev.type, cfg.swapTimeWindowSeconds, ok)
         /\ task' = [task EXCEPT ![t].cdSetAt = now,
                                 ![t].storeFailed = (@ \/ ~ok),
                                 ![t].wrote = (@ \/ ok),
                                 ![t].pc = AfterR3(task[t].ev, task[t].usd)]
         /\ cdHist' = IF ok /\ env.cooldownHistory
                       THEN [cdHist EXCEPT ![task[t].ev.type] =
                                [at |-> now, seconds |-> cfg.swapTimeWindowSeconds]]
                       ELSE cdHist
    /\ UNCHANGED <<cacheHist, now, ticks, cfg, env, priceCache, inserted, call,
                   events, resp, parseIn, parseOut>>
    /\ UNCHANGED <<subscriptions, trackedWallets, fanout, jobs, shutdown,
                   up, rejected, zset, zsetExp, seqCount, seqExp, streak>>

----------------------------------------------------------------------------
(* processTransfer, the awaited steps of R4 (sequential sells) *)

\* sendPushover5Sells has no guard on the value
SendPushover5Sells(valueUsd) == TRUE

\* R4 on a buy: resetSequentialSells(wallet)
R4Reset(t) ==
    /\ task[t].pc = "r4reset"
    /\ \E ok \in Outcomes :
         /\ Spend(ok)
         /\ ResetSequentialSells(task[t].ev.walletAddress, ok)
         /\ streak' = [streak EXCEPT ![task[t].ev.walletAddress] = 0]
         /\ task' = [task EXCEPT ![t].storeFailed = (@ \/ ~ok),
                                 ![t].wrote = (@ \/ ok),
                                 ![t].pc = "done"]
    /\ Frame
    /\ UNCHANGED <<subscriptions, trackedWallets, fanout, jobs, shutdown,
                   up, rejected, zset, zsetExp, cooldown>>

\* R4 on a qualifying sell: incrementSequentialSells(wallet)
R4Increment(t) ==
    /\ task[t].pc = "r4incr"
    /\ \E outcome \in IncrOutcomes :
         LET wallet == task[t].ev.walletAddress
             count == IncrementResult(wallet, outcome)
         IN /\ Spend(outcome = "ok")
            /\ IncrementSequentialSells(wallet, outcome)
            /\ streak' = [streak EXCEPT ![wallet] = @ + 1]
            /\ task' = [task EXCEPT ![t].count = count,
                                    ![t].storeFailed = (@ \/ outcome # "ok"),
                                    ![t].wrote = (@ \/ outcome # "incrFails"),
                                    ![t].nth = streak[wallet] + 1,
                                    ![t].pc = AfterIncrement(count)]
    /\ Frame
    /\ UNCHANGED <<subscriptions, trackedWallets, fanout, jobs, shutdown,
                   up, rejected, zset, zsetExp, cooldown>>

\* R4: sendNotification(PUSHOVER_5_SELLS)
R4Notify(t) ==
    /\ task[t].pc = "r4send"
    /\ \E delivered \in env.deliveries :
         task' = [task EXCEPT ![t] =
                     AfterSend(@, "R4", SendPushover5Sells(@.usd), delivered,
                               "r4clear")]
    /\ Frame
    /\ UNCHANGED <<subscriptions, trackedWallets, fanout, jobs, shutdown,
                   up, rejected, faults, zset, zsetExp, cooldown, seqCount,
                   seqExp, streak>>

\* R4: resetSequentialSells(wallet) after the alert
R4Clear(t) ==
    /\ task[t].pc = "r4clear"
    /\ \E ok \in Outcomes :
         /\ Spend(ok)
         /\ ResetSequentialSells(task[t].ev.walletAddress, ok)
         /\ streak' = [streak EXCEPT ![task[t].ev.walletAddress] = 0]
         /\ task' = [task EXCEPT ![t].storeFailed = (@ \/ ~ok),
                                 ![t].wrote = (@ \/ ok),
                                 ![t].pc = "done"]
    /\ Frame
    /\ UNCHANGED <<subscriptions, trackedWallets, fanout, jobs, shutdown,
                   up, rejected, zset, zsetExp, cooldown>>

\* a rejected promise without a handler ends the process (the default of
\* Node for unhandled rejections)
CatchRejection_Unhandled(t) == task[t].pc # "failed"

\* processWebhook(payload).catch(...): a rejection is logged by the handler
\* attached in POST /webhook and goes no further
CatchRejection(t) == TRUE

\* the promise of processWebhook has settled (resolved, or rejected and
\* logged by the handler`s catch); nothing refers to it any more
Settle(t) ==
    /\ task[t].pc \in {"done", "failed"}
    /\ task' = [task EXCEPT ![t] = IdleTask]
    /\ up' = (up /\ CatchRejection(t))
    /\ rejected' = IF task[t].pc = "failed" THEN rejected + 1 ELSE rejected
    /\ Frame
    /\ UNCHANGED <<subscriptions, trackedWallets, fanout, jobs, shutdown,
                   faults, zset, zsetExp, cooldown, seqCount, seqExp, streak>>

----------------------------------------------------------------------------
(* index.ts: POST /webhook *)

NoResponse == [code |-> 0]

\* const payloads = Array.isArray(body) ? body : [body]
Payloads(body) == IF body.isArray THEN body.items ELSE <<body.items[1]>>

\* an element that lacks the signature or the timestamp key
Malformed(payload) ==
    \/ ~payload.isObject
    \/ ~payload.hasSignature
    \/ ~payload.hasTimestamp

\* processWebhook(payload) up to its first await: payload.tokenTransfers.find
\* throws when the key is missing and the promise rejects; no transfer of
\* interest resolves it at once; else processTransfer awaits the price
ProcessWebhook(payload) ==
    IF ~payload.hasTokenTransfers THEN <<[IdleTask EXCEPT !.pc = "failed"]>>
    ELSE IF ParseTransaction(payload) = <<>> THEN <<>>
    ELSE <<StartedTask(ParseTransaction(payload)[1])>>

\* the promises of the accepted payloads that are pending or rejected after
\* the handler`s loop, in payload order
RECURSIVE ParsedEvents(_)
ParsedEvents(accepted) ==
    IF accepted = <<>> THEN <<>>
    ELSE ProcessWebhook(Head(accepted)) \o ParsedEvents(Tail(accepted))

FreeSlots == {t \in 1..env.maxActive : task[t].pc = "idle"}

\* the handler: validates each element, starts processWebhook for the valid
\* ones without awaiting it and answers at once
Webhook ==
    /\ \E isArray \in env.bodyKinds, items \in SeqsUpTo(env.pool, MaxBatch) :
         LET body == [isArray |-> isArray, items |-> items]
             payloads == Payloads(body)
             accepted == SelectSeq(payloads, ValidatePayload)
             processed == Len(accepted)
             skipped == Len(payloads) - Len(accepted)
             evs == ParsedEvents(accepted)
             free == FreeSlots
             Rank(t) == Cardinality({u \in free : u <= t})
         IN /\ up
            /\ shutdown = "running"
            /\ ~isArray => Len(items) = 1
            /\ Len(evs) <= Cardinality(free)
            /\ events + Len(evs) <= env.maxEvents
            /\ task' = [t \in Tasks |->
                          IF t \in free /\ Rank(t) <= Len(evs)
                          THEN evs[Rank(t)] ELSE task[t]]
            /\ events' = events + Len(evs)
            /\ resp' = [ code |-> 200, processed |-> processed,
                         skipped |-> skipped, total |-> Len(payloads),
                         isArray |-> isArray,
                         elements |-> IF isArray THEN Len(items) ELSE 1,
                         malformed |-> Len(SelectSeq(payloads, Malformed)),
                         entered |-> Len(accepted),
                         enteredMalformed |->
                             \E i \in 1..Len(accepted) : Malformed(accepted[i]) ]
    /\ UNCHANGED <<cacheHist, cdHist, subscriptions, trackedWallets, fanout, jobs, shutdown,
                   up, rejected, now, ticks, faults, cfg, env, zset, zsetExp,
                   cooldown, seqCount,
                   seqExp, priceCache, inserted, call, streak, parseIn, parseOut>>

----------------------------------------------------------------------------
(* database.service.ts: subscriptions and tracked wallets *)

Users == {1, 2}

UserKeys == {"k1", "k2"}

\* the tables pushover_subscriptions and pushover_5sells_subscriptions
Classes == {"pushover", "pushover5Sells"}

\* the addresses the operators type: addresses are base58 and case matters,
\* "w1" and "W1" are two addresses that differ in letter case only
Addresses == {"W1", "w1", "W2"}

\* String.prototype.toLowerCase on these addresses
ToLowerCase(address) ==
    CASE address = "W1" -> "w1"
      [] address = "W2" -> "w2"
      [] OTHER -> address

\* what is left alone by a call of the database service
DbFrame ==
    UNCHANGED <<now, ticks, faults, cfg, env, zset, zsetExp, cooldown, seqCount, seqExp,
                priceCache, inserted, task, events, resp, streak, parseIn, parseOut,
                up, rejected, cdHist, cacheHist, fanout, jobs, shutdown>>

\* a plain INSERT into a table that had no key
InsertOrReplace_Append(rows, row) == rows \cup {row}

\* INSERT OR REPLACE with user_id as PRIMARY KEY: a row of the same user
\* is deleted before the new one goes in
InsertOrReplace(rows, row) == {r \in rows : r.userId # row.userId} \cup {row}

\* subscribePushover / subscribePushover5Sells(userId, pushoverUserKey)
Subscribe(class) ==
    /\ \E userId \in env.users, key \in env.userKeys :
         /\ subscriptions' = [subscriptions EXCEPT ![class] =
                InsertOrReplace(@, [userId |-> userId, pushoverUserKey |-> key])]
         /\ call' = [op |-> "subscribe", class |-> class, userId |-> userId,
                     key |-> key,
                     replaced |-> \E r \in subscriptions[class] : r.userId = userId]
    /\ UNCHANGED trackedWallets
    /\ DbFrame

\* unsubscribePushover / unsubscribePushover5Sells(userId): DELETE ... WHERE
\* user_id = ?, and result.changes > 0 is returned
Unsubscribe(class) ==
    /\ \E userId \in env.users :
         LET deleted == {r \in subscriptions[class] : r.userId = userId}
         IN /\ subscriptions' = [subscriptions EXCEPT ![class] = @ \ deleted]
            /\ call' = [op |-> "unsubscribe", class |-> class, userId |-> userId,
                        value |-> Cardinality(deleted) > 0]
    /\ UNCHANGED trackedWallets
    /\ DbFrame

\* address TEXT PRIMARY KEY: the INSERT fails when a row has this address
PrimaryKeyConstraint(rows, address) == \E r \in rows : r.address = address

\* the code of the SqliteError that better-sqlite3 throws for the failed
\* INSERT: the driver reports the extended result codes of SQLite
InsertErrorCode(rows, address) ==
    IF PrimaryKeyConstraint(rows, address) THEN "SQLITE_CONSTRAINT_PRIMARYKEY"
    ELSE "SQLITE_OK"

\* addWallet(address, addedBy): true when the row went in; an error whose
\* code is 'SQLITE_CONSTRAINT' is logged as a warning and false returned,
\* any other error is thrown on to the caller
AddWallet ==
    /\ \E address \in env.addresses, addedBy \in env.users :
         LET code == InsertErrorCode(trackedWallets, address)
         IN /\ trackedWallets' =
                   IF code = "SQLITE_OK"
                   THEN trackedWallets \cup {[address |-> address, addedBy |-> addedBy]}
                   ELSE trackedWallets
            /\ call' = [op |-> "addWallet", address |-> address,
                        threw |-> code \notin {"SQLITE_OK", "SQLITE_CONSTRAINT"},
                        value |-> code = "SQLITE_OK",
                        count |-> Cardinality(trackedWallets')]
    /\ UNCHANGED subscriptions
    /\ DbFrame

\* a removeWallet that reports the row it matched and leaves it in the table
RemoveWallet_Unapplied ==
    /\ \E address \in env.addresses :
         LET deleted == {r \in trackedWallets : r.address = address}
         IN /\ trackedWallets' = trackedWallets
            /\ call' = [op |-> "removeWallet", address |-> address,
                        value |-> Cardinality(deleted) > 0,
                        count |-> Cardinality(trackedWallets')]
    /\ UNCHANGED subscriptions
    /\ DbFrame

\* removeWallet(address): DELETE ... WHERE address = ?, changes > 0
RemoveWallet ==
    /\ \E address \in env.addresses :
         LET deleted == {r \in trackedWallets : r.address = address}
         IN /\ trackedWallets' = trackedWallets \ deleted
            /\ call' = [op |-> "removeWallet", address |-> address,
                        value |-> Cardinality(deleted) > 0,
                        count |-> Cardinality(trackedWallets')]
    /\ UNCHANGED subscriptions
    /\ DbFrame

\* getWalletAddresses(): SELECT address FROM tracked_wallets
GetWalletAddresses == {r.address : r \in trackedWallets}

\* getWalletCount(): SELECT COUNT(*) FROM tracked_wallets
GetWalletCount == Cardinality(trackedWallets)

\* the lookup compares the strings as they are
IsWalletTracked_CaseSensitive(walletAddress) ==
    \/ GetWalletAddresses = {}
    \/ \E tracked \in GetWalletAddresses : tracked = walletAddress

\* isWalletTracked(walletAddress): every wallet when none is stored, else
\* some stored address equal to it after toLowerCase on both
IsWalletTracked(walletAddress) ==
    \/ GetWalletAddresses = {}
    \/ \E tracked \in GetWalletAddresses :
           ToLowerCase(tracked) = ToLowerCase(walletAddress)

CallIsWalletTracked ==
    /\ \E walletAddress \in env.addresses :
         call' = [op |-> "isWalletTracked", address |-> walletAddress,
                  value |-> IsWalletTracked(walletAddress)]
    /\ UNCHANGED <<subscriptions, trackedWallets>>
    /\ DbFrame

----------------------------------------------------------------------------
(* notification.service.ts: the push fan-out *)

\* what a step of the fan-out leaves alone
FanoutFrame ==
    UNCHANGED <<now, ticks, faults, cfg, env, zset, zsetExp, cooldown, seqCount, seqExp,
                priceCache, inserted, call, task, events, resp, streak, parseIn,
                parseOut, up, rejected, cdHist, cacheHist, subscriptions,
                trackedWallets, jobs, shutdown>>

NoFanout ==
    [ state |-> "idle", rule |-> "", class |-> "", snapshot |-> {}, pending |-> {},
      attempts |-> [u \in Users |-> 0], refused |-> {}, logged |-> {} ]

\* every push alert goes to the general subscribers
AudienceOf_General(rule) == "pushover"

\* sendPushoverThresholdA (R2) and sendPushoverThresholdB (R3) call
\* sendPushoverToAllSubscribers, sendPushover5Sells (R4) calls
\* sendPushoverTo5SellsSubscribers
AudienceOf(rule) == IF rule = "R4" THEN "pushover5Sells" ELSE "pushover"

\* sendPushoverToAllSubscribers / sendPushoverTo5SellsSubscribers up to the
\* await: the rows are read once, nothing is sent when there are none, else
\* subscriptions.map starts the send of every row (each callback runs up to
\* its own await of sendPushoverMessage)
SendPushoverToSubscribers ==
    /\ fanout.state # "sending"
    /\ \E rule \in env.pushRules :
         LET class == AudienceOf(rule)
             rows == subscriptions[class]
             users == {r.userId : r \in rows}
         IN fanout' = [ state |-> IF rows = {} THEN "done" ELSE "sending",
                        rule |-> rule, class |-> class, snapshot |-> rows,
                        pending |-> users,
                        attempts |-> [u \in Users |-> IF u \in users THEN 1 ELSE 0],
                        refused |-> {}, logged |-> {} ]
    /\ FanoutFrame

\* the callback of pushoverClient.send for one subscriber: the promise of
\* sendPushoverMessage resolves, or rejects and the catch of the map
\* callback logs the error with the user id
SendPushoverMessage ==
    /\ fanout.state = "sending"
    /\ \E userId \in fanout.pending, delivered \in env.deliveries :
         fanout' = [fanout EXCEPT !.pending = @ \ {userId},
                                  !.refused = IF delivered THEN @ ELSE @ \cup {userId},
                                  !.logged = IF delivered THEN @ ELSE @ \cup {userId}]
    /\ FanoutFrame

\* a promise that settles with the first of its inputs
AllSettled_First(f) == f.pending # {r.userId : r \in f.snapshot}

\* Promise.allSettled(promises): settled when every input has settled
AllSettled(f) == f.pending = {}

\* the await of Promise.allSettled returns and the fan-out with it
FanoutReturns ==
    /\ fanout.state = "sending"
    /\ AllSettled(fanout)
    /\ fanout' = [fanout EXCEPT !.state = "done"]
    /\ FanoutFrame

----------------------------------------------------------------------------
(* index.ts: GET /health *)

\* the ping has no say in the answer
HealthCheck_AlwaysUp(ok) == TRUE

\* healthCheck(): true when the ping is answered, false (and an error
\* logged) when it throws
HealthCheck(ok) == ok

Health ==
    /\ \E ok \in Outcomes :
         LET redisHealthy == HealthCheck(ok)
         IN /\ resp' = [ code |-> IF redisHealthy THEN 200 ELSE 503,
                         status |-> IF redisHealthy THEN "healthy" ELSE "degraded",
                         config |->
                           [ targetTokenMint |-> TargetMint,
                             trackedWalletsCount |-> GetWalletCount,
                             pushoverSubscribersCount |->
                                 Cardinality(subscriptions["pushover"]),
                             priceThresholdUsd |-> cfg.priceThresholdUsd,
                             swapTimeWindowSeconds |-> cfg.swapTimeWindowSeconds ] ]
            /\ call' = [op |-> "health", ok |-> ok]
            /\ Spend(ok)
    /\ UNCHANGED <<now, ticks, cfg, env, zset, zsetExp, cooldown, seqCount, seqExp,
                   priceCache, inserted, task, events, streak, parseIn, parseOut,
                   up, rejected, cdHist, cacheHist, subscriptions, trackedWallets,
                   fanout, jobs, shutdown>>

----------------------------------------------------------------------------
(* scheduler.service.ts: the cron jobs *)

Jobs == {"hourlySummary", "cumulative30m", "cumulative1h", "cumulative4h"}

HalfHourSeconds == 1800

HourSeconds == 3600

FourHoursSeconds == 14400

\* the cron expressions: '*/30 * * * *', '0 */4 * * *' and '0 * * * *'
CronPeriod(job) ==
    CASE job = "cumulative30m" -> HalfHourSeconds
      [] job = "cumulative4h" -> FourHoursSeconds
      [] OTHER -> HourSeconds

\* the period a job sums over: the argument of sendCumulativeAmountsToUsers,
\* and the configured window for sendHourlySummary, which calls
\* getCumulativeAmount
PeriodSeconds(job) ==
    CASE job = "cumulative30m" -> HalfHourSeconds
      [] job = "cumulative1h" -> HourSeconds
      [] job = "cumulative4h" -> FourHoursSeconds
      [] OTHER -> cfg.swapTimeWindowSeconds

\* the invocations of a job that wait for the store and for the sends, and
\* the time the job fired last
NoInvocations == [reading |-> 0, sending |-> 0, firedAt |-> Null]

Running(job) == jobs[job].reading + jobs[job].sending

SchedulerFrame ==
    UNCHANGED <<now, ticks, cfg, env, zsetExp, cooldown, seqCount, seqExp, priceCache,
                inserted, task, events, resp, streak, parseIn, parseOut, up, rejected,
                cdHist, cacheHist, subscriptions, trackedWallets, fanout, shutdown>>

\* cron.schedule(expression, async () => ...): at each time the expression
\* matches the callback is called, whatever became of its earlier calls
CronFires ==
    /\ \E job \in env.jobs :
         /\ now % CronPeriod(job) = 0
         /\ jobs[job].firedAt # now
         /\ Running(job) < env.maxInvocations
         /\ jobs' = [jobs EXCEPT ![job].reading = @ + 1, ![job].firedAt = now]
    /\ UNCHANGED <<zset, faults, call>>
    /\ SchedulerFrame

\* getCumulativeAmounts(periodSeconds): the eviction and the sum of
\* getCumulativeAmount for both directions, from now - periodSeconds on
GetCumulativeAmounts(periodSeconds) ==
    [type \in Dirs |->
        LET start == now - periodSeconds
            kept == ZRemRangeByScore(zset[type], start)
        IN [ entries |-> kept,
             total |-> LuaReply(SumAmounts(ZRangeByScore(kept, start))) ]]

\* an invocation gets its sums from the store: 0 for both when the store
\* fails. The inserts made up to then are kept beside the sums
JobReads ==
    /\ \E job \in env.jobs, ok \in Outcomes :
         LET read == GetCumulativeAmounts(PeriodSeconds(job))
         IN /\ jobs[job].reading > 0
            /\ Spend(ok)
            /\ zset' = IF ok THEN [type \in Dirs |-> read[type].entries] ELSE zset
            /\ call' = [ op |-> "summary", n |-> call.n, ok |-> ok, job |-> job,
                         periodSeconds |-> PeriodSeconds(job), at |-> now,
                         buys |-> IF ok THEN read["buy"].total ELSE 0,
                         sells |-> IF ok THEN read["sell"].total ELSE 0,
                         inserted |-> inserted ]
            /\ jobs' = [jobs EXCEPT ![job].reading = @ - 1, ![job].sending = @ + 1]
    /\ SchedulerFrame

\* the sends of the invocation have settled and the callback returns
JobReturns ==
    /\ \E job \in env.jobs :
         /\ jobs[job].sending > 0
         /\ jobs' = [jobs EXCEPT ![job].sending = @ - 1]
    /\ UNCHANGED <<zset, faults, call>>
    /\ SchedulerFrame

----------------------------------------------------------------------------
(* index.ts: gracefulShutdown *)

ShutdownFrame ==
    UNCHANGED <<now, ticks, faults, cfg, env, zset, zsetExp, cooldown, seqCount, seqExp,
                priceCache, inserted, call, events, resp, streak, parseIn, parseOut,
                rejected, cdHist, cacheHist, subscriptions, trackedWallets, fanout,
                jobs>>

\* await server.close(): the listener stops accepting; no request is being
\* answered, every handler has replied before its tasks run on
CloseServer ==
    /\ shutdown = "running"
    /\ shutdown' = "serverClosed"
    /\ UNCHANGED <<task, up>>
    /\ ShutdownFrame

\* await redisService.close(): client.quit() ends the connection of the
\* shared client
CloseStore ==
    /\ shutdown = "serverClosed"
    /\ shutdown' = "storeClosed"
    /\ UNCHANGED <<task, up>>
    /\ ShutdownFrame

\* process.exit(0): the process and every pending promise are gone
Exit ==
    /\ shutdown = "storeClosed"
    /\ shutdown' = "exited"
    /\ up' = FALSE
    /\ task' = [t \in Tasks |-> IdleTask]
    /\ ShutdownFrame

----------------------------------------------------------------------------
(* What the environment sends *)

\* a webhook element with one transfer of the target mint
Swap(signature, feePayer, from, to, tokenAmount) ==
    [ isObject |-> TRUE, hasSignature |-> TRUE, hasTimestamp |-> TRUE,
      hasTokenTransfers |-> TRUE,
      signature |-> signature, timestamp |-> StartTime, feePayer |-> feePayer,
      tokenTransfers |-> << [ fromUserAccount |-> from, toUserAccount |-> to,
                              mint |-> TargetMint, tokenAmount |-> tokenAmount ] >> ]

SellOf(wallet, tokenAmount) == Swap("s", wallet, wallet, "X", tokenAmount)

BuyOf(wallet, tokenAmount) == Swap("b", wallet, "X", wallet, tokenAmount)

\* the same element with a timestamp so many seconds later
Later(payload, seconds) == [payload EXCEPT !.timestamp = @ + seconds]

\* an element without the timestamp key, and a body that is no object
NoTimestamp == [SellOf("W1", 600) EXCEPT !.hasTimestamp = FALSE]

NotAnObject == [SellOf("W1", 600) EXCEPT !.isObject = FALSE,
                                         !.hasSignature = FALSE,
                                         !.hasTimestamp = FALSE]

\* a valid element that carries no transfer of the target mint
Unrelated == [SellOf("W1", 600) EXCEPT !.tokenTransfers[1].mint = OtherMint]

\* a valid element without the tokenTransfers key
NoTransfers == [SellOf("W1", 600) EXCEPT !.hasTokenTransfers = FALSE]

\* direct calls of the store: two timestamps one window apart, two amounts
StoreEnv ==
    [ maxActive |-> 0, maxEvents |-> 0, pool |-> {}, bodyKinds |-> {},
      responses |-> "none", maxFaults |-> MaxFaults, maxTicks |-> MaxTicks,
      tickSteps |-> {SwapTimeWindowSecondsDefault + WindowKeyTtlSlack},
      timestamps |-> {StartTime - SwapTimeWindowSecondsDefault, StartTime},
      usdAmounts |-> {150 * CentsPerUsd, 300 * CentsPerUsd},
      cooldownSeconds |-> {},
      deliveries |-> {TRUE}, priceHistory |-> FALSE, cooldownHistory |-> FALSE ]

\* inserts whose timestamps lie two windows apart, on a reliable store
OrderEnv ==
    [StoreEnv EXCEPT !.maxFaults = 0,
                     !.timestamps = {StartTime - 2 * SwapTimeWindowSecondsDefault,
                                     StartTime}]

\* events stamped at the start, read and inserted again once the clock has
\* left their window behind by a second
ReadEnv ==
    [StoreEnv EXCEPT !.tickSteps = {SwapTimeWindowSecondsDefault + 1},
                     !.timestamps = {StartTime}]

\* bursts of arrays: up to MaxActive tasks in flight, sells and buys of one
\* wallet, a reliable backend
BurstEnv ==
    [ maxActive |-> MaxActive, maxEvents |-> MaxEvents,
      pool |-> {SellOf("W1", 1000), BuyOf("W1", 1000)},
      bodyKinds |-> {TRUE},
      responses |-> "plain", maxFaults |-> 0, maxTicks |-> 1,
      tickSteps |-> {SwapTimeWindowSecondsDefault},
      timestamps |-> {StartTime}, usdAmounts |-> {}, cooldownSeconds |-> {},
      deliveries |-> {TRUE}, priceHistory |-> FALSE, cooldownHistory |-> FALSE ]

\* one event after another: the next payload arrives when the task of the
\* previous one has settled
SeqEnv ==
    [ maxActive |-> 1, maxEvents |-> MaxSeqEvents,
      pool |-> {SellOf("W1", 600), SellOf("W1", 0), BuyOf("W1", 600)},
      bodyKinds |-> {FALSE},
      responses |-> "plain", maxFaults |-> MaxFaults, maxTicks |-> MaxTicks,
      tickSteps |-> {SwapTimeWindowSecondsDefault},
      timestamps |-> {StartTime}, usdAmounts |-> {}, cooldownSeconds |-> {},
      deliveries |-> {TRUE}, priceHistory |-> FALSE, cooldownHistory |-> FALSE ]

\* single objects and arrays, well-formed and malformed elements mixed
IngressEnv ==
    [ maxActive |-> 1, maxEvents |-> 2,
      pool |-> {SellOf("W1", 1000), BuyOf("W1", 1000),
                NoTimestamp, NotAnObject, Unrelated, NoTransfers},
      bodyKinds |-> BOOLEAN,
      responses |-> "plain", maxFaults |-> 0, maxTicks |-> 1,
      tickSteps |-> {SwapTimeWindowSecondsDefault},
      timestamps |-> {StartTime}, usdAmounts |-> {}, cooldownSeconds |-> {},
      deliveries |-> {TRUE}, priceHistory |-> FALSE, cooldownHistory |-> FALSE ]

\* direct calls of every store operation, half a window between them
OpsEnv ==
    [ maxActive |-> 0, maxEvents |-> 0, pool |-> {}, bodyKinds |-> {},
      responses |-> "none", maxFaults |-> MaxFaults, maxTicks |-> MaxTicks,
      tickSteps |-> {SwapTimeWindowSecondsDefault \div 2},
      timestamps |-> {StartTime},
      usdAmounts |-> {150 * CentsPerUsd},
      cooldownSeconds |-> {SwapTimeWindowSecondsDefault},
      deliveries |-> {TRUE}, priceHistory |-> FALSE, cooldownHistory |-> FALSE ]

\* the clock step of the price environment, half a TTL, and the steps that
\* make up one TTL
PriceTickStep == PriceCacheTtlSecondsDefault \div 2

PriceTicks == PriceCacheTtlSecondsDefault \div PriceTickStep

\* one event after another while the cached price ages to the end of its TTL
PriceEnv ==
    [ maxActive |-> 1, maxEvents |-> MaxPriceEvents,
      pool |-> {SellOf("W1", 1000)}, bodyKinds |-> {FALSE},
      responses |-> "every", maxFaults |-> MaxFaults, maxTicks |-> PriceTicks,
      tickSteps |-> {PriceTickStep},
      timestamps |-> {StartTime}, usdAmounts |-> {}, cooldownSeconds |-> {},
      deliveries |-> {TRUE}, priceHistory |-> TRUE, cooldownHistory |-> FALSE ]

\* single events through every rule, the channels taking or refusing each
\* message
RulesEnv ==
    [ maxActive |-> 1, maxEvents |-> MaxRuleEvents,
      pool |-> {SellOf("W1", 1000), BuyOf("W1", 1000)}, bodyKinds |-> {FALSE},
      responses |-> "plain", maxFaults |-> 0, maxTicks |-> 1,
      tickSteps |-> {SwapTimeWindowSecondsDefault},
      timestamps |-> {StartTime}, usdAmounts |-> {}, cooldownSeconds |-> {},
      deliveries |-> BOOLEAN, priceHistory |-> FALSE, cooldownHistory |-> FALSE ]

\* qualifying sells one after another, now and after the window and the
\* window key have run out, over a backend that may fail
RearmEnv ==
    [ maxActive |-> 1, maxEvents |-> MaxRearmEvents,
      pool |-> {SellOf("W1", 1000),
                Later(SellOf("W1", 1000), SwapTimeWindowSecondsDefault + WindowKeyTtlSlack)},
      bodyKinds |-> {FALSE},
      responses |-> "plain", maxFaults |-> MaxFaults, maxTicks |-> MaxTicks,
      tickSteps |-> {SwapTimeWindowSecondsDefault + WindowKeyTtlSlack},
      timestamps |-> {StartTime}, usdAmounts |-> {}, cooldownSeconds |-> {},
      deliveries |-> {TRUE}, priceHistory |-> FALSE, cooldownHistory |-> TRUE ]

\* an environment that sends no webhook and lets no time pass
QuietEnv ==
    [ maxActive |-> 0, maxEvents |-> 0, pool |-> {}, bodyKinds |-> {},
      responses |-> "none", maxFaults |-> 0, maxTicks |-> 0, tickSteps |-> {},
      timestamps |-> {StartTime}, usdAmounts |-> {}, cooldownSeconds |-> {},
      deliveries |-> {TRUE}, priceHistory |-> FALSE, cooldownHistory |-> FALSE ]

\* the bot commands of two users
DbEnv ==
    QuietEnv
    @@ [ users |-> Users, userKeys |-> UserKeys, addresses |-> Addresses ]

\* the health probe over a backend that may fail, while one user subscribes
\* and tracks a wallet
HealthEnv ==
    [QuietEnv EXCEPT !.maxFaults = MaxFaults]
    @@ [ users |-> {1}, userKeys |-> {"k1"}, addresses |-> {"W1"} ]

\* alerts of every push rule while users subscribe and unsubscribe, the
\* push service taking or refusing each message
FanoutEnv ==
    [QuietEnv EXCEPT !.deliveries = BOOLEAN]
    @@ [ users |-> Users, userKeys |-> {"k1"}, pushRules |-> {"R2", "R3", "R4"} ]

\* two jobs over an empty store, half an hour between the clock steps
SchedEnv ==
    [QuietEnv EXCEPT !.maxTicks = MaxTicks,
                                !.tickSteps = {HalfHourSeconds}]
    @@ [ jobs |-> {"hourlySummary", "cumulative30m"}, maxInvocations |-> MaxInvocations ]

\* inserts of one amount and the summaries over the shortest and the longest
\* period, an hour between the clock steps, one invocation at a time
SummaryEnv ==
    [QuietEnv EXCEPT !.maxTicks = MaxTicks,
                                !.tickSteps = {HourSeconds},
                                !.usdAmounts = {150 * CentsPerUsd}]
    @@ [ jobs |-> {"cumulative30m", "cumulative4h"}, maxInvocations |-> 1 ]

\* events in flight when the process is told to stop
ShutdownEnv ==
    [ maxActive |-> 1, maxEvents |-> MaxShutdownEvents,
      pool |-> {SellOf("W1", 1000)}, bodyKinds |-> {FALSE},
      responses |-> "plain", maxFaults |-> 0, maxTicks |-> 1,
      tickSteps |-> {PriceTickStep},
      timestamps |-> {StartTime}, usdAmounts |-> {}, cooldownSeconds |-> {},
      deliveries |-> {TRUE}, priceHistory |-> FALSE, cooldownHistory |-> FALSE ]

----------------------------------------------------------------------------
(* Specifications *)

InitWith(e) ==
    /\ env = e
    /\ now = StartTime
    /\ ticks = 0
    /\ faults = env.maxFaults
    /\ zset = [k \in Dirs |-> {}]
    /\ zsetExp = [k \in Dirs |-> 0]
    /\ cooldown = [k \in Dirs |-> 0]
    /\ priceCache = [price |-> Null, exp |-> 0]
    /\ inserted = [k \in Dirs |-> [m \in AllMembers |-> 0]]
    /\ call = NoCall
    /\ task = [t \in Tasks |-> IdleTask]
    /\ events = 0
    /\ up = TRUE
    /\ rejected = 0
    /\ cdHist = [k \in Dirs |-> NeverSet]
    /\ cacheHist = NeverCached
    /\ resp = NoResponse
    /\ parseOut = <<>>
    /\ subscriptions = [class \in Classes |-> {}]
    /\ trackedWallets = {}
    /\ fanout = NoFanout
    /\ jobs = [job \in Jobs |-> NoInvocations]
    /\ shutdown = "running"

\* the counters outlive the process: a start finds the streak of wallet W1
\* at any length short of the trigger
InitCounters(lengths) ==
    \E n \in lengths :
        /\ seqCount = [w \in Wallets |-> IF w = "W1" THEN n ELSE 0]
        /\ seqExp = [w \in Wallets |-> IF w = "W1" /\ n > 0
                                       THEN StartTime + SequentialSellsTtl ELSE 0]
        /\ streak = seqCount

\* the service under bursts of webhook traffic
Init ==
    /\ cfg = DefaultConfig
    /\ parseIn = NoPayload
    /\ InitCounters({SequentialSellsTrigger - 1})
    /\ InitWith(BurstEnv)

Next ==
    \/ Webhook
    \/ \E t \in Tasks : GetTokenPrice(t)
    \/ \E t \in Tasks : FetchPrice(t)
    \/ \E t \in Tasks : CachePrice(t)
    \/ \E t \in Tasks : R1Notify(t)
    \/ \E t \in Tasks : R2Notify(t)
    \/ \E t \in Tasks : R3Add(t)
    \/ \E t \in Tasks : R3Check(t)
    \/ \E t \in Tasks : R3Notify(t)
    \/ \E t \in Tasks : R3SetCooldown(t)
    \/ \E t \in Tasks : R4Reset(t)
    \/ \E t \in Tasks : R4Increment(t)
    \/ \E t \in Tasks : R4Notify(t)
    \/ \E t \in Tasks : R4Clear(t)
    \/ \E t \in Tasks : Settle(t)
    \/ Tick

Spec == Init /\ [][Next]_vars

\* the service fed one event at a time
InitSeq ==
    /\ cfg \in Configs
    /\ parseIn = NoPayload
    /\ InitCounters({0})
    /\ InitWith(SeqEnv)

SpecSeq == InitSeq /\ [][Next]_vars

\* events priced one after another against a price source of every answer
InitPrice ==
    /\ cfg = [DefaultConfig EXCEPT !.fiveSellsEnabled = FALSE]
    /\ parseIn = NoPayload
    /\ InitCounters({0})
    /\ InitWith(PriceEnv)

\* processTransfer as far as R3
NextPrice ==
    \/ Webhook
    \/ \E t \in Tasks : GetTokenPrice(t)
    \/ \E t \in Tasks : FetchPrice(t)
    \/ \E t \in Tasks : CachePrice(t)
    \/ \E t \in Tasks : R1Notify(t)
    \/ \E t \in Tasks : R2Notify(t)
    \/ \E t \in Tasks : R3Add(t)
    \/ \E t \in Tasks : R3Check(t)
    \/ \E t \in Tasks : R3Notify(t)
    \/ \E t \in Tasks : R3SetCooldown(t)
    \/ \E t \in Tasks : Settle(t)
    \/ Tick

SpecPrice == InitPrice /\ [][NextPrice]_vars

\* events through the rules with channels that may refuse a message
InitRules ==
    /\ cfg = DefaultConfig
    /\ parseIn = NoPayload
    /\ InitCounters({SequentialSellsTrigger - 1})
    /\ InitWith(RulesEnv)

SpecRules == InitRules /\ [][Next]_vars

\* qualifying events before and after the cooldown has run out
InitRearm ==
    /\ cfg = [DefaultConfig EXCEPT !.fiveSellsEnabled = FALSE]
    /\ parseIn = NoPayload
    /\ InitCounters({0})
    /\ InitWith(RearmEnv)

SpecRearm == InitRearm /\ [][NextPrice]_vars

\* the ingress fed bodies of every shape
InitIngress ==
    /\ cfg = DefaultConfig
    /\ parseIn = NoPayload
    /\ InitCounters({SequentialSellsTrigger - 1})
    /\ InitWith(IngressEnv)

SpecIngress == InitIngress /\ [][Next]_vars

\* the window store called directly
InitStore ==
    /\ cfg = DefaultConfig
    /\ parseIn = NoPayload
    /\ InitCounters({0})
    /\ InitWith(StoreEnv)

NextStore ==
    \/ CallAddAmountToWindow
    \/ Tick

SpecStore == InitStore /\ [][NextStore]_vars

\* inserts that arrive in every order
InitOrder ==
    /\ cfg = DefaultConfig
    /\ parseIn = NoPayload
    /\ InitCounters({0})
    /\ InitWith(OrderEnv)

NextOrder == CallAddAmountInOrder

SpecOrder == InitOrder /\ [][NextOrder]_vars

\* reads of the cumulative amount between inserts
InitRead ==
    /\ cfg = DefaultConfig
    /\ parseIn = NoPayload
    /\ InitCounters({0})
    /\ InitWith(ReadEnv)

NextRead ==
    \/ CallAddAmountToWindow
    \/ CallGetCumulativeAmount
    \/ Tick

SpecRead == InitRead /\ [][NextRead]_vars

\* every operation of the store called directly
InitOps ==
    /\ cfg = DefaultConfig
    /\ parseIn = NoPayload
    /\ InitCounters({0})
    /\ InitWith(OpsEnv)

NextOps ==
    \/ CallAddAmountToWindow
    \/ CallGetCumulativeAmount
    \/ CallIsInCooldown
    \/ CallSetCooldown
    \/ CallIncrementSequentialSells
    \/ CallResetSequentialSells
    \/ CallGetSequentialSells
    \/ Tick

SpecOps == InitOps /\ [][NextOps]_vars

\* the parser called directly
InitParse ==
    /\ cfg = DefaultConfig
    /\ parseIn \in ParsePayloads
    /\ InitCounters({0})
    /\ InitWith(StoreEnv)

NextParse == CallParseTransaction

SpecParse == InitParse /\ [][NextParse]_vars

\* the parser called on payloads whose transfer records carry the decimals
\* of their token, or do not
InitDecimals ==
    /\ cfg = DefaultConfig
    /\ parseIn \in DecimalsPayloads
    /\ InitCounters({0})
    /\ InitWith(StoreEnv)

SpecDecimals == InitDecimals /\ [][NextParse]_vars

\* the price source queried on its own
InitQuote ==
    /\ cfg = DefaultConfig
    /\ parseIn = NoPayload
    /\ InitCounters({0})
    /\ InitWith(QuietEnv)

NextQuote == CallFetchPriceFromDexScreener

SpecQuote == InitQuote /\ [][NextQuote]_vars

\* the bot commands
InitDb ==
    /\ cfg = DefaultConfig
    /\ parseIn = NoPayload
    /\ InitCounters({0})
    /\ InitWith(DbEnv)

NextDb ==
    \/ \E class \in Classes : Subscribe(class)
    \/ \E class \in Classes : Unsubscribe(class)
    \/ AddWallet
    \/ RemoveWallet
    \/ CallIsWalletTracked

SpecDb == InitDb /\ [][NextDb]_vars

\* the health probe
InitHealth ==
    /\ cfg \in Configs
    /\ parseIn = NoPayload
    /\ InitCounters({0})
    /\ InitWith(HealthEnv)

NextHealth ==
    \/ \E class \in Classes : Subscribe(class)
    \/ \E class \in Classes : Unsubscribe(class)
    \/ AddWallet
    \/ RemoveWallet
    \/ Health

SpecHealth == InitHealth /\ [][NextHealth]_vars

\* push alerts going out while the subscriptions change
InitFanout ==
    /\ cfg = DefaultConfig
    /\ parseIn = NoPayload
    /\ InitCounters({0})
    /\ InitWith(FanoutEnv)

NextFanout ==
    \/ \E class \in Classes : Subscribe(class)
    \/ \E class \in Classes : Unsubscribe(class)
    \/ SendPushoverToSubscribers
    \/ SendPushoverMessage
    \/ FanoutReturns

SpecFanout == InitFanout /\ [][NextFanout]_vars

\* the scheduler over some hours
InitSched ==
    /\ cfg = DefaultConfig
    /\ parseIn = NoPayload
    /\ InitCounters({0})
    /\ InitWith(SchedEnv)

NextSched ==
    \/ CronFires
    \/ JobReads
    \/ JobReturns
    \/ Tick

SpecSched == InitSched /\ [][NextSched]_vars

\* the summaries of a store that is written to
InitSummary ==
    /\ cfg = DefaultConfig
    /\ parseIn = NoPayload
    /\ InitCounters({0})
    /\ InitWith(SummaryEnv)

NextSummary ==
    \/ CallAddAmountToWindow
    \/ CronFires
    \/ JobReads
    \/ JobReturns
    \/ Tick

SpecSummary == InitSummary /\ [][NextSummary]_vars

\* the service told to stop while it works
InitShutdown ==
    /\ cfg = [DefaultConfig EXCEPT !.fiveSellsEnabled = FALSE]
    /\ parseIn = NoPayload
    /\ InitCounters({0})
    /\ InitWith(ShutdownEnv)

NextShutdown ==
    \/ NextPrice
    \/ CloseServer
    \/ CloseStore
    \/ Exit

SpecShutdown == InitShutdown /\ [][NextShutdown]_vars

----------------------------------------------------------------------------
(* Properties *)

\* the task has passed the named rule of processTransfer
PastR2(t) ==
    task[t].pc \in {"r3add", "r3check", "r3send", "r3set", "r4reset", "r4incr",
                    "r4send", "r4clear", "done", "failed"}

PastR3(t) ==
    task[t].pc \in {"r4reset", "r4incr", "r4send", "r4clear", "done"}

(* C1: the cumulative value returned by addAmountToWindow for timestamp ts  *)
(* equals the sum of the USD amounts of all inserts made so far on the key *)
(* (this one included) whose timestamp is >= ts - window_seconds.          *)
C1_ReturnedEqualsSumOfInserts ==
    (call.op = "add" /\ call.ok) => call.total = call.expected

(* C2: at most one cumulative (R3) dispatch per cooldown: once a task has   *)
(* seen the flag of a (mint, direction) absent and dispatched, no other    *)
(* task dispatches R3 for that direction from that observation until      *)
(* window_seconds later; two tasks never both see the flag absent and both *)
(* dispatch.                                                               *)
C2_AtMostOncePerCooldown ==
    \A t, u \in Tasks :
        ( /\ t # u
          /\ task[t].ev.type = task[u].ev.type
          /\ task[t].cdSeen = "absent"
          /\ "R3" \in task[t].fired
          /\ "R3" \in task[u].fired )
        => ~( /\ task[u].sentAt >= task[t].seenAt
              /\ task[u].sentAt < task[t].seenAt + cfg.swapTimeWindowSeconds )

(* C3: processing one event after another, R3 dispatches for an event      *)
(* exactly when the returned cumulative is >= the threshold and the        *)
(* cooldown flag of its direction is absent, and after such a dispatch the *)
(* flag is present for window_seconds.                                     *)
C3_DispatchIffArmed ==
    \A t \in Tasks :
        /\ (task[t].cum # Null /\ PastR3(t)) =>
              ( "R3" \in task[t].fired
                <=> ( /\ task[t].cum >= cfg.priceThresholdUsd
                      /\ task[t].cdSeen = "absent" ) )
        /\ ( /\ PastR3(t)
             /\ "R3" \in task[t].fired
             /\ now < task[t].cdSetAt + cfg.swapTimeWindowSeconds )
           => cooldown[task[t].ev.type] # 0

(* C4: an event with a resolved USD value is in the window of its          *)
(* direction once its insert has returned, whether the cumulative alert    *)
(* was dispatched or suppressed by the cooldown (as long as the key has    *)
(* not expired).                                                           *)
C4_InsertedWhetherOrNotSuppressed ==
    \A t \in Tasks :
        ( /\ task[t].cum # Null
          /\ zsetExp[task[t].ev.type] # 0 )
        => Member(task[t].ev.timestamp, task[t].usd) \in zset[task[t].ev.type]

\* an event has been inserted while the alert of its direction was suppressed
C4_Witness ==
    \E t \in Tasks :
        /\ task[t].pc = "done"
        /\ task[t].cdSeen = "present"
        /\ "R3" \notin task[t].fired
        /\ task[t].usd = 0
        /\ Member(task[t].ev.timestamp, task[t].usd) \in zset[task[t].ev.type]

(* C5: for one event R1 fires iff usd >= the chat threshold and R2 fires   *)
(* iff usd >= the single threshold, with >=, each decided on its own.      *)
C5_SingleEventRules ==
    \A t \in Tasks :
        PastR2(t) =>
            /\ "R1" \in task[t].fired
               <=> (task[t].usd # Null /\ task[t].usd >= cfg.telegramThresholdUsd)
            /\ "R2" \in task[t].fired
               <=> (task[t].usd # Null /\ task[t].usd >= cfg.priceThresholdUsd)

TargetTransfers == {i \in 1..Len(parseIn.tokenTransfers) :
                       parseIn.tokenTransfers[i].mint = TargetMint}

\* the transfer at position i has the fee payer as its from- or to-account
Involved(i) ==
    \/ parseIn.tokenTransfers[i].toUserAccount = parseIn.feePayer
    \/ parseIn.tokenTransfers[i].fromUserAccount = parseIn.feePayer

\* first of the target-mint transfers (when there is one)
FirstTarget == CHOOSE i \in TargetTransfers : \A j \in TargetTransfers : i <= j

(* C8, as stated: the parser emits at most one event, and emits one iff    *)
(* exactly one target-mint transfer of the payload has feePayer as its     *)
(* from- or to-account, at whatever position.                              *)
C8_OneIffExactlyOneInvolved ==
    call.op = "parse" =>
        /\ Len(parseOut) <= 1
        /\ Len(parseOut) = 1
           <=> Cardinality({i \in TargetTransfers : Involved(i)}) = 1

(* C8, amended: the parser emits at most one event, and emits one iff the  *)
(* first target-mint transfer of the payload has feePayer as its from- or  *)
(* to-account.                                                             *)
C8_OneIffFirstInvolved ==
    call.op = "parse" =>
        /\ Len(parseOut) <= 1
        /\ Len(parseOut) = 1
           <=> (TargetTransfers # {} /\ Involved(FirstTarget))

\* a payload whose only involved target-mint transfer is not the first one
\* has been parsed, and nothing was emitted
C8_Witness ==
    /\ call.op = "parse"
    /\ Cardinality(TargetTransfers) = 2
    /\ ~Involved(1)
    /\ Involved(2)
    /\ parseOut = <<>>

(* C9: the parser decides on the first target-mint transfer alone: a buy   *)
(* for toUserAccount when that equals feePayer, else a sell for            *)
(* fromUserAccount when that equals feePayer, else nothing; the event      *)
(* carries the payload`s signature and timestamp and the transfer`s        *)
(* tokenAmount; no target-mint transfer, no event.                         *)
C9_FirstTargetTransferDecides ==
    call.op = "parse" =>
        IF TargetTransfers = {} THEN parseOut = <<>>
        ELSE LET tr == parseIn.tokenTransfers[FirstTarget]
             IN IF tr.toUserAccount = parseIn.feePayer
                THEN /\ Len(parseOut) = 1
                     /\ parseOut[1].type = "buy"
                     /\ parseOut[1].walletAddress = tr.toUserAccount
                     /\ parseOut[1].transactionSignature = parseIn.signature
                     /\ parseOut[1].timestamp = parseIn.timestamp
                     /\ parseOut[1].tokenAmount = tr.tokenAmount
                ELSE IF tr.fromUserAccount = parseIn.feePayer
                THEN /\ Len(parseOut) = 1
                     /\ parseOut[1].type = "sell"
                     /\ parseOut[1].walletAddress = tr.fromUserAccount
                     /\ parseOut[1].transactionSignature = parseIn.signature
                     /\ parseOut[1].timestamp = parseIn.timestamp
                     /\ parseOut[1].tokenAmount = tr.tokenAmount
                ELSE parseOut = <<>>

\* a buy was emitted for a transfer the fee payer both sends and receives,
\* found behind a transfer of another mint
C9_Witness ==
    /\ call.op = "parse"
    /\ Len(parseIn.tokenTransfers) = 2
    /\ parseIn.tokenTransfers[1].mint = OtherMint
    /\ parseIn.tokenTransfers[2].mint = TargetMint
    /\ parseIn.tokenTransfers[2].toUserAccount = parseIn.feePayer
    /\ parseIn.tokenTransfers[2].fromUserAccount = parseIn.feePayer
    /\ Len(parseOut) = 1
    /\ parseOut[1].type = "buy"

C11_ResponseBeforeAndApartFromTasks ==
    [][ /\ up'
        /\ events' # events =>
              /\ resp'.code = 200
              /\ \A t \in Tasks :
                    task'[t] # task[t] => task'[t].pc \in {"price", "failed"}
        /\ (events' = events /\ task' # task) => resp' = resp ]_vars

\* a task has rejected and been logged, and a payload accepted after that
\* has been processed to its end
C11_Witness ==
    /\ rejected >= 1
    /\ up
    /\ resp.code = 200
    /\ \E t \in Tasks : task[t].pc = "done" /\ "R1" \in task[t].fired

(* C12: when a window-store operation fails while an event is processed,   *)
(* the event is dropped without side effects: no rule has dispatched or    *)
(* dispatches a notification for it, and it changes no window entry, no    *)
(* cooldown flag and no counter.                                           *)
C12_FailedEventLeavesNoTrace ==
    \A t \in Tasks :
        task[t].storeFailed => (task[t].fired = {} /\ ~task[t].wrote)


\* C13: every operation of the window store surfaces a failure of its backend
\* call to the caller as an error; none of them answers with a default value
\* or stays silent when the backend call failed.
C13_BackendFailureSurfaces ==
    (call.op \in {"add", "cumulative", "isInCooldown", "setCooldown",
                  "increment", "reset", "get"} /\ ~call.ok) => call.threw


\* the price source gave no price: the request failed or timed out, the body
\* listed no pairs, no pair carried a priceUsd, or the priceUsd of the most
\* liquid such pair is not a positive number
FailedFetch(answer) ==
    \/ answer.kind = "error"
    \/ /\ answer.kind = "ok"
       /\ \/ answer.pairs = 0
          \/ answer.priced = 0
          \/ answer.best \notin {"50", "100"}

\* C14: a failed price fetch gives the event no USD value and leaves the price
\* cache as it was, and the cache never holds anything but a positive price.
C14_FailedFetchCachesNothing ==
    /\ [](priceCache.price # Null => priceCache.price > 0)
    /\ [](\A t \in Tasks : FailedFetch(task[t].response) =>
              (task[t].usd = Null /\ task[t].pc # "cache"))
    /\ [][ \A t \in Tasks :
              (task[t].pc = "fetch" /\ FailedFetch(task'[t].response)) =>
                  priceCache' = priceCache ]_vars

\* a fetch whose most liquid priced pair is unusable failed while the cache
\* held a price, and the price is still there
C14_Witness ==
    \E t \in Tasks :
        /\ task[t].response.kind = "ok"
        /\ task[t].response.pairs = MaxPairs
        /\ task[t].response.priced = MaxPairs
        /\ FailedFetch(task[t].response)
        /\ task[t].usd = Null
        /\ priceCache.price = 50

PricedNull(tk) ==
    /\ tk.lookup.at # Null
    /\ tk.pc \notin {"idle", "price", "fetch", "cache"}
    /\ tk.usd = Null

Rank(rule) ==
    CASE rule = "R1" -> 1 [] rule = "R2" -> 2 [] rule = "R3" -> 3 [] rule = "R4" -> 4

\* the rules whose dispatch a task is waiting for
InFlight(tk) ==
    CASE tk.pc = "r1" -> {"R1"}
      [] tk.pc = "r2" -> {"R2"}
      [] tk.pc = "r3send" -> {"R3"}
      [] tk.pc = "r4send" -> {"R4"}
      [] OTHER -> {}

C18_RefusedSendDoesNotAbort ==
    \A t \in Tasks :
        task[t].undelivered # {} =>
            /\ task[t].pc # "failed"
            /\ task[t].pc = "done" =>
                  /\ task[t].cum # Null
                  /\ task[t].usd >= cfg.priceThresholdUsd => "R2" \in task[t].fired
                  /\ task[t].cum >= cfg.priceThresholdUsd =>
                        (task[t].cdSeen # "none")

\* the chat message of R1 was refused, and the event went on to the push of
\* R2 and the insert and push of R3
C18_Witness ==
    \E t \in Tasks :
        /\ task[t].undelivered = {"R1"}
        /\ task[t].pc = "done"
        /\ task[t].fired = {"R1", "R2", "R3"}
        /\ task[t].cum # Null

\* C19: no notification of an event is sent before the window insert of that
\* event has completed.
C19_InsertBeforeAnySend ==
    \A t \in Tasks :
        (task[t].log # <<>> \/ InFlight(task[t]) # {}) => task[t].cum # Null

\* at the time of the read the flag of the key had been set less than its
\* lifetime before
SetWithinLifetime(key, at) ==
    /\ cdHist[key].at # Null
    /\ at < cdHist[key].at + cdHist[key].seconds

\* C20: once setCooldown(k, n) has succeeded at t, every isInCooldown(k) in
\* [t, t + n) answers true and, the flag not being set again, every one at
\* t + n or later answers false, whatever is done to other keys.
C20_InCooldownExactlyForLifetime ==
    call.op = "isInCooldown" =>
        (call.value <=> SetWithinLifetime(call.type, call.at))

\* C21: the cumulative rule re-arms: an event whose insert returns a
\* cumulative at or above the threshold, checked after the lifetime of the
\* flag of its direction has run out, dispatches the cumulative push again.
C21_RearmsAfterCooldown ==
    \A t \in Tasks :
        ( /\ task[t].cum # Null
          /\ task[t].cum >= cfg.priceThresholdUsd
          /\ task[t].seenAt # Null
          /\ task[t].lapsed )
        => (task[t].pc = "r3send" \/ "R3" \in task[t].fired)

\* an event that came after the flag had run out and the old entries were
\* gone has dispatched again, on its own amount
C21_Witness ==
    \E t \in Tasks :
        /\ task[t].lapsed
        /\ task[t].ev.timestamp > StartTime
        /\ task[t].cum = task[t].usd
        /\ "R3" \in task[t].fired
        /\ task[t].pc = "done"

----------------------------------------------------------------------------
(* The push fan-out *)

SnapshotUsers == {r.userId : r \in fanout.snapshot}

\* C22: a push fan-out makes exactly one send to every subscriber of the
\* snapshot it read at its start and none to anyone else; a send that is
\* refused is logged and changes nothing for the other subscribers, nothing
\* is sent twice, and the fan-out has returned only when every send has
\* settled
C22_OneSendPerSnapshotSubscriber ==
    /\ \A u \in Users : fanout.attempts[u] = IF u \in SnapshotUsers THEN 1 ELSE 0
    /\ fanout.pending \subseteq SnapshotUsers
    /\ fanout.refused \subseteq SnapshotUsers \ fanout.pending
    /\ fanout.logged = fanout.refused
    /\ fanout.state = "done" => fanout.pending = {}

\* a fan-out to two subscribers has returned, one send refused and one
\* taken, and the table is no longer what the snapshot was
C22_Witness ==
    /\ fanout.state = "done"
    /\ SnapshotUsers = Users
    /\ Cardinality(fanout.refused) = 1
    /\ fanout.logged = fanout.refused
    /\ subscriptions[fanout.class] # fanout.snapshot

\* the users a fan-out has sent to
Recipients(f) == {u \in Users : f.attempts[u] > 0}

Holders(rows) == {r.userId : r \in rows}

\* C23: the subscription classes are kept apart. A fan-out for the
\* sequential-sells alert (R4) sends to exactly the users who hold a
\* sequential-sells subscription when it starts, a fan-out for a general
\* alert (R2, R3) to exactly the holders of a general subscription; and a
\* subscribe or unsubscribe changes the rows of its own class only, never
\* those of the other class nor the recipients of a fan-out under way
C23_ClassesKeptApart ==
    [][ /\ (fanout.state # "sending" /\ fanout'.state # "idle" /\ fanout' # fanout)
           => /\ fanout'.rule = "R4"
                 => Recipients(fanout') = Holders(subscriptions["pushover5Sells"])
              /\ fanout'.rule \in {"R2", "R3"}
                 => Recipients(fanout') = Holders(subscriptions["pushover"])
        /\ \A class \in Classes :
             subscriptions'[class] # subscriptions[class]
             => /\ call'.op \in {"subscribe", "unsubscribe"}
                /\ call'.class = class
                /\ \A other \in Classes \ {class} :
                     subscriptions'[other] = subscriptions[other]
                /\ fanout' = fanout
      ]_vars

\* a sequential-sells alert went to user 1 alone while user 2 holds only a
\* general subscription, and a general subscription was changed meanwhile
C23_Witness ==
    /\ fanout.state = "sending"
    /\ fanout.rule = "R4"
    /\ Recipients(fanout) = {1}
    /\ Holders(subscriptions["pushover"]) = {2}
    /\ call.op = "subscribe"
    /\ call.class = "pushover"
    /\ call.userId = 2

----------------------------------------------------------------------------
(* The scheduler *)

\* C24: no scheduled job overlaps with itself: at most one invocation of
\* each job is running at any time, a tick that finds the previous
\* invocation still running being skipped
C24_NoJobOverlapsItself == \A job \in Jobs : Running(job) <= 1

\* no two inserts of the summary`s history share a timestamp and an amount
InsertsDistinct(bags) ==
    \A type \in Dirs : \A m \in DOMAIN bags[type] : bags[type][m] <= 1

\* C25: each periodic summary reports, for buys and for sells, the sum of
\* all window inserts whose timestamp lies within its own period before the
\* time of the summary: 1800 s, 3600 s or 14400 s, the configured window
\* playing no part. Stated for the summaries over inserts that differ in
\* timestamp or amount, which the store keeps apart
C25_SummarySumsOwnPeriod ==
    ( /\ call.op = "summary"
      /\ call.ok
      /\ call.job # "hourlySummary"
      /\ InsertsDistinct(call.inserted) )
    => /\ call.buys = ExpectedTotal(call.inserted["buy"], call.at - call.periodSeconds)
       /\ call.sells = ExpectedTotal(call.inserted["sell"], call.at - call.periodSeconds)

----------------------------------------------------------------------------
(* The database service *)

TrackedAddresses == {r.address : r \in trackedWallets}

\* C26: adding a tracked wallet is idempotent. An add of an address that
\* is tracked leaves the rows as they are and returns false without
\* throwing, an add of any other address returns true and tracks it; every
\* address is held by one row at most, and the wallet count is the number
\* of distinct addresses tracked
C26_AddWalletIdempotent ==
    [][ /\ (call'.op = "addWallet" /\ call'.address \in TrackedAddresses)
           => /\ trackedWallets' = trackedWallets
              /\ call'.value = FALSE
              /\ ~call'.threw
        /\ (call'.op = "addWallet" /\ call'.address \notin TrackedAddresses)
           => /\ call'.value = TRUE
              /\ \E r \in trackedWallets' :
                    /\ r.address = call'.address
                    /\ trackedWallets' \ {r} = trackedWallets
        /\ call'.op \in {"addWallet", "removeWallet"}
           => /\ call'.count = Cardinality({r.address : r \in trackedWallets'})
              /\ \A r, q \in trackedWallets' : r.address = q.address => r = q
      ]_vars

RowsOf(rows, userId) == {r \in rows : r.userId = userId}

\* C27: a user holds at most one subscription per class whatever was
\* subscribed and unsubscribed before: a subscribe leaves the user with one
\* row of the class, the one with the key just given, and the other users`
\* rows as they were; an unsubscribe returns true exactly when the user had
\* a row, and leaves the user none
C27_OneSubscriptionPerClass ==
    [][ /\ \A class \in Classes, userId \in Users :
             Cardinality(RowsOf(subscriptions'[class], userId)) <= 1
        /\ call'.op = "subscribe"
           => LET rows == subscriptions'[call'.class]
              IN /\ RowsOf(rows, call'.userId) =
                       {[userId |-> call'.userId, pushoverUserKey |-> call'.key]}
                 /\ rows \ RowsOf(rows, call'.userId) =
                       subscriptions[call'.class]
                           \ RowsOf(subscriptions[call'.class], call'.userId)
        /\ call'.op = "unsubscribe"
           => /\ call'.value = (RowsOf(subscriptions[call'.class], call'.userId) # {})
              /\ RowsOf(subscriptions'[call'.class], call'.userId) = {}
      ]_vars

\* a user who held a subscription has subscribed again with the other key,
\* beside the subscription of the other user
C27_Witness ==
    /\ call.op = "subscribe"
    /\ call.replaced
    /\ call.key = "k2"
    /\ Cardinality(subscriptions[call.class]) = Cardinality(Users)
    /\ [userId |-> call.userId, pushoverUserKey |-> "k2"] \in subscriptions[call.class]

\* two addresses that are the same but for the case of their letters
SameIgnoringCase(a, b) == a = b \/ {a, b} = {"W1", "w1"}

\* C28: isWalletTracked answers true when no wallet is tracked; when some
\* are, it answers true exactly when one of them is the address asked for,
\* letter case ignored
C28_TrackedIgnoringCase ==
    call.op = "isWalletTracked"
    => call.value = ( \/ trackedWallets = {}
                      \/ \E r \in trackedWallets : SameIgnoringCase(r.address, call.address) )

\* an address is found tracked through a row that differs from it in
\* letter case only, and another is found not tracked
C28_Witness ==
    /\ call.op = "isWalletTracked"
    /\ call.value
    /\ call.address = "W1"
    /\ TrackedAddresses = {"w1"}
    /\ ~IsWalletTracked("W2")

----------------------------------------------------------------------------
(* The health probe *)

\* C29: GET /health answers 200 exactly when the store answered the ping
\* and 503 when it did not, and either answer reports the configured
\* threshold and window
C29_HealthFollowsPing ==
    [][ call'.op = "health"
        => /\ resp'.code = IF call'.ok THEN 200 ELSE 503
           /\ resp'.config.priceThresholdUsd = cfg.priceThresholdUsd
           /\ resp'.config.swapTimeWindowSeconds = cfg.swapTimeWindowSeconds
      ]_vars

\* the ping failed: 503, the thresholds and the counts in the body
C29_Witness ==
    /\ call.op = "health"
    /\ ~call.ok
    /\ resp.code = 503
    /\ resp.config.priceThresholdUsd = cfg.priceThresholdUsd
    /\ resp.config.trackedWalletsCount = 1

----------------------------------------------------------------------------
(* Shutdown *)

\* a task whose promise has not settled yet
Outstanding(t) == task[t].pc \notin {"idle", "done", "failed"}

\* C30: on graceful shutdown the ingress stops accepting first, and the
\* connection of the window store is closed only when no pipeline task is
\* outstanding any more (the code grants no drain window whose end could
\* stand in for that): no task is left to issue a store operation on the
\* closed connection
C30_StoreClosedAfterDrain ==
    shutdown = "storeClosed" => \A t \in Tasks : ~Outstanding(t)

----------------------------------------------------------------------------
(* The window store: collisions, bounds and order *)

\* C31: window inserts never collide. A successful addAmountToWindow that
\* follows at once on a successful one for the same key, timestamp and
\* amount adds an entry of its own: it returns the value the first returned
\* plus that amount
C31_InsertsNeverCollide ==
    [][ ( /\ call.op = "add"
          /\ call.ok
          /\ call'.op = "add"
          /\ call'.ok
          /\ call'.n = call.n + 1
          /\ call'.type = call.type
          /\ call'.timestamp = call.timestamp
          /\ call'.usdAmount = call.usdAmount )
        => call'.total = call.total + call'.usdAmount
      ]_vars

\* C32: the window is closed at its lower bound. A successful
\* addAmountToWindow at timestamp ts keeps an entry whose timestamp is
\* exactly ts - window_seconds (it drops only older ones) and counts it in
\* the sum it returns
C32_LowerBoundKept ==
    [][ ( /\ call'.op = "add"
          /\ call'.ok
          /\ call'.n = call.n + 1 )
        => \A m \in zset[call'.type] :
             Score(m) = call'.timestamp - cfg.swapTimeWindowSeconds
             => /\ m \in zset'[call'.type]
                /\ call'.total >= AmountOf(m)
      ]_vars

----------------------------------------------------------------------------
(* Decimals *)

\* C33: the decimals of an emitted event are those of the matched transfer
\* record when the record carries them and 0 when it does not, so that the
\* USD value of the event is its amount over 10^decimals of the token
\* times the price
C33_DecimalsFromTransfer ==
    (call.op = "parse" /\ parseOut # <<>>)
    => LET tr == parseIn.tokenTransfers[FirstTarget]
           decimals == IF tr.decimals # Null THEN tr.decimals ELSE 0
           price == CentsPerUsd
       IN /\ parseOut[1].decimals = decimals
          /\ CalculateUsdValue(parseOut[1].tokenAmount, parseOut[1].decimals, price)
             = (tr.tokenAmount * price) \div Pow10(decimals)

----------------------------------------------------------------------------
(* The price of the most liquid valid pair *)

\* a pair whose priceUsd parses as a positive finite number
ValidPrice(pair) ==
    /\ ~ParseFloat(pair.priceUsd).nan
    /\ ParseFloat(pair.priceUsd).val > 0

\* C34: on a cache miss the price source gives the price of the pair with
\* the greatest USD liquidity among the pairs whose priceUsd parses as a
\* positive finite number, and null only when no pair has such a price: a
\* more liquid pair with an unparsable, zero or negative priceUsd does not
\* hide a valid, less liquid one
C34_MostLiquidValidPair ==
    (call.op = "fetchPrice" /\ call.response.kind = "ok")
    => LET pairs == call.response.pairs
           valid == {i \in 1..Len(pairs) : ValidPrice(pairs[i])}
       IN IF valid = {} THEN call.price = Null
          ELSE \E i \in valid :
                 /\ \A j \in valid : LiquidityUsd(pairs[j]) <= LiquidityUsd(pairs[i])
                 /\ call.price = ParseFloat(pairs[i].priceUsd).val

----------------------------------------------------------------------------
(* The counter of sequential sells *)

\* C35: resetSequentialSells(w) followed by getSequentialSells(w) gives 0
\* whatever the count was, and incrementSequentialSells, resetSequentialSells
\* and getSequentialSells on w leave the counter of every other wallet as
\* it was
C35_ResetThenGetIsZero ==
    [][ /\ ( /\ call.op = "reset"
             /\ call'.op = "get"
             /\ call'.n = call.n + 1
             /\ call'.type = call.type )
           => call'.value = 0
        /\ ( /\ call'.op \in {"increment", "reset", "get"}
             /\ call'.n = call.n + 1 )
           => \A other \in Wallets \ {call'.type} :
                seqCount'[other] = seqCount[other]
      ]_vars

----------------------------------------------------------------------------
(* The order of arrival of the inserts *)

\* the entries a key holds after the inserts of a sequence, made on the
\* empty key in the order of the sequence
RECURSIVE Replay(_)
Replay(members) ==
    IF members = <<>> THEN {}
    ELSE LET m == members[Len(members)]
         IN AddAmountScript(Replay(SubSeq(members, 1, Len(members) - 1)),
                            WindowStart(Score(m)), Score(m), AmountOf(m)).entries

\* the orders in which the inserts of a sequence can arrive
Orders(members) ==
    LET n == Len(members)
        perms == {p \in [1..n -> 1..n] : \A i, j \in 1..n : p[i] = p[j] => i = j}
    IN {[i \in 1..n |-> members[p[i]]] : p \in perms}

\* C36: what the window store holds does not depend on the order of arrival
\* of the inserts. Every order of applying the addAmountToWindow calls made
\* on a key leaves the entries the key holds, so that a later read or insert
\* computes the same cumulative amount whatever the interleaving was, an
\* insert with an older timestamp than one already stored included
C36_ArrivalOrderIrrelevant ==
    call.op = "arrive"
    => \A type \in Dirs :
         \A order \in Orders(call.arrivals[type]) : Replay(order) = zset[type]

----------------------------------------------------------------------------
(* Reads of the cumulative amount *)

\* C37: a read of the cumulative amount is pure to the eye. Made at
\* wall-clock time now between two addAmountToWindow calls, it never changes
\* the value the later insert returns, whatever the timestamp of that
\* insert, one older than now included: every insert that can follow the
\* read returns what it would have returned without the read
C37_ReadLeavesLaterInsertAlone ==
    [][ ( /\ call'.op = "cumulative"
          /\ call'.n = call.n + 1 )
        => \A usdAmount \in env.usdAmounts, timestamp \in env.timestamps :
             AddAmountScript(zset'[call'.type], WindowStart(timestamp),
                             timestamp, usdAmount).total
             = AddAmountScript(zset[call'.type], WindowStart(timestamp),
                               timestamp, usdAmount).total
      ]_vars

----------------------------------------------------------------------------
(* The cooldown of the cumulative alert and its dispatch *)

\* C38: the cooldown of the cumulative alert is started by the attempt to
\* dispatch, not by a delivery. Once R3 has decided to dispatch, the send
\* returns to processTransfer whether or not anything was delivered and the
\* flag is then set for swapTimeWindowSeconds; and the flag is written only
\* by a task whose dispatch has returned, never before
C38_CooldownFollowsDispatchAttempt ==
    [][ /\ \A t \in Tasks :
             /\ (task[t].pc = "r3send" /\ task'[t] # task[t])
                => /\ task'[t].pc = "r3set"
                   /\ cooldown' = cooldown
             /\ (task[t].pc = "r3set" /\ task'[t] # task[t])
                => cooldown'[task[t].ev.type] = now + cfg.swapTimeWindowSeconds
        /\ \A key \in Dirs :
             cooldown'[key] \notin {0, cooldown[key]}
             => \E t \in Tasks : /\ task[t].pc = "r3set"
                                 /\ task[t].sentAt # Null
                                 /\ task[t].ev.type = key
      ]_vars

\* a cumulative alert that reached nobody has started the cooldown
C38_Witness ==
    \E t \in Tasks :
        /\ "R3" \in task[t].undelivered
        /\ task[t].cdSetAt # Null
        /\ cooldown[task[t].ev.type] = task[t].cdSetAt + cfg.swapTimeWindowSeconds

----------------------------------------------------------------------------
(* Removed wallets *)

\* C39 as stated: after removeWallet(address) has reported success,
\* isWalletTracked(address) is false, whatever adds and removes came before,
\* the removal of the last tracked wallet and wallets added in several
\* letter cases included
C39_RemovedIsUntracked ==
    (call.op = "removeWallet" /\ call.value)
    => ~IsWalletTracked(call.address)

\* C39: after removeWallet(address) has reported success the address is no
\* longer stored, and isWalletTracked(address) is false as long as some
\* wallet is still stored and none of the stored addresses is the address
\* in another letter case (with no wallet left every address is tracked)
C39_RemovedUnlessFallbackOrVariant ==
    (call.op = "removeWallet" /\ call.value)
    => /\ call.address \notin GetWalletAddresses
       /\ ( /\ GetWalletAddresses # {}
            /\ \A tracked \in GetWalletAddresses :
                 ~SameIgnoringCase(tracked, call.address) )
          => ~IsWalletTracked(call.address)

\* a wallet has been removed while another, of another spelling, stays and
\* the removed one is not tracked any more
C39_Witness ==
    /\ call.op = "removeWallet"
    /\ call.value
    /\ GetWalletAddresses # {}
    /\ ~IsWalletTracked(call.address)

====
